---- MODULE Spec2Model ----
(***************************************************************************)
(* IntelSleuth: query classification (app/handlers/input_handler.py), the  *)
(* request pipeline (app/routes.py), the source adapters and their         *)
(* aggregators (app/scrapers/*.py), the result parser                      *)
(* (app/parsers/result_parser.py), the exporters (app/exporters/*.py),    *)
(* the database dependency (app/__init__.py) and the handlers of           *)
(* fastapi_server.py.                                                      *)
(*                                                                         *)
(* A Python str is a sequence of one-character strings; a dict is a        *)
(* function whose DOMAIN is its key set; a list is a sequence.             *)
(***************************************************************************)
EXTENDS Integers, Sequences, FiniteSets, TLC

(***************************************************************************)
(* Bounds of the model.                                                    *)
(***************************************************************************)
\* every string over Alphabet of at most this length is a classifier input
MaxLen == 4
\* a search adapter returns at most this many result items
MaxItems == 2

(***************************************************************************)
(* Character classes used by the patterns of input_handler.py.             *)
(***************************************************************************)
Digit == {"0", "1", "2", "3", "4", "5", "6", "7", "8", "9"}

Letter == {"a", "b", "c", "d", "e", "f", "m", "o", "x", "z", "A", "F", "Z"}

HexLetter == {"a", "b", "c", "d", "e", "f", "A", "F"}

AlNum == Letter \cup Digit

\* str.strip() / str.split() / \s : whitespace
Whitespace == {" ", "\t", "\n"}

\* the characters utils.sanitize_input deletes: [<>&'";]
Dangerous == {"<", ">", "&", "'", "\"", ";"}

\* [a-zA-Z0-9._%+-]
EmailLocalChar == AlNum \cup {".", "_", "%", "+", "-"}

\* [a-zA-Z0-9.-]
EmailDomainChar == AlNum \cup {".", "-"}

\* [0-9\s\-\(\)]
PhoneChar == Digit \cup Whitespace \cup {"-", "(", ")"}

\* [a-zA-Z0-9_\.]
UsernameChar == AlNum \cup {"_", "."}

\* [a-zA-Z0-9-_] : the inner characters of a domain label
LabelChar == AlNum \cup {"-", "_"}

\* the characters the exhaustive inputs are built from: one of each class
\* that some rule tells apart
Alphabet == {"a", "1", ".", "@", ":", " ", "-", "+", "_"}

(***************************************************************************)
(* Program constants: the repetition counts of the patterns.               *)
(***************************************************************************)
TldMinLen == 2
PhoneMinLen == 7
PhoneMaxLen == 20
UsernameMinLen == 3
UsernameMaxLen == 30

(***************************************************************************)
(* Python str operations.                                                  *)
(***************************************************************************)
AllIn(s, C) == \A i \in 1..Len(s) : s[i] \in C

Contains(s, c) == \E i \in 1..Len(s) : s[i] = c

\* str.strip(): drop leading and trailing whitespace
Strip(s) ==
    LET nonWs == {i \in 1..Len(s) : s[i] \notin Whitespace}
    IN  IF nonWs = {} THEN <<>>
        ELSE LET lo == CHOOSE i \in nonWs : \A j \in nonWs : i <= j
                 hi == CHOOSE i \in nonWs : \A j \in nonWs : i >= j
             IN  SubSeq(s, lo, hi)

\* re.sub(pattern, '', s): delete every character of class C
RECURSIVE RemoveChars(_, _)
RemoveChars(s, C) ==
    IF s = <<>> THEN <<>>
    ELSE IF Head(s) \in C THEN RemoveChars(Tail(s), C)
         ELSE <<Head(s)>> \o RemoveChars(Tail(s), C)

\* str.split(sep): the pieces between the occurrences of sep (never empty list)
RECURSIVE SplitOn(_, _)
SplitOn(s, sep) ==
    IF ~Contains(s, sep) THEN <<s>>
    ELSE LET i == CHOOSE k \in 1..Len(s) :
                      s[k] = sep /\ \A j \in 1..(k - 1) : s[j] # sep
         IN  <<SubSeq(s, 1, i - 1)>> \o SplitOn(SubSeq(s, i + 1, Len(s)), sep)

\* len(s.split()) >= 1: whitespace-split yields a word iff a non-blank exists
HasWord(s) == \E i \in 1..Len(s) : s[i] \notin Whitespace

DigitVal(c) ==
    CASE c = "0" -> 0 [] c = "1" -> 1 [] c = "2" -> 2 [] c = "3" -> 3
      [] c = "4" -> 4 [] c = "5" -> 5 [] c = "6" -> 6 [] c = "7" -> 7
      [] c = "8" -> 8 [] c = "9" -> 9

\* int(s) of a non-empty all-digit string
RECURSIVE IntOf(_)
IntOf(s) ==
    IF s = <<>> THEN 0
    ELSE 10 * IntOf(SubSeq(s, 1, Len(s) - 1)) + DigitVal(s[Len(s)])

(***************************************************************************)
(* The rules of InputHandler.validate_and_identify.                        *)
(***************************************************************************)
\* re.match(r'^[a-zA-Z0-9._%+-]+@[a-zA-Z0-9.-]+\.[a-zA-Z]{2,}$', query)
IsEmail(s) ==
    \E at \in 1..Len(s) : \E dot \in 1..Len(s) :
        /\ s[at] = "@"
        /\ at > 1
        /\ AllIn(SubSeq(s, 1, at - 1), EmailLocalChar)
        /\ dot > at + 1
        /\ AllIn(SubSeq(s, at + 1, dot - 1), EmailDomainChar)
        /\ s[dot] = "."
        /\ Len(s) - dot >= TldMinLen
        /\ AllIn(SubSeq(s, dot + 1, Len(s)), Letter)

\* one label of validators.domain that is followed by a dot:
\* [a-zA-Z0-9](?:[a-zA-Z0-9-_]{0,61}[A-Za-z0-9])?
IsDomainLabel(l) ==
    /\ Len(l) >= 1
    /\ Len(l) <= 63
    /\ l[1] \in AlNum
    /\ l[Len(l)] \in AlNum
    /\ AllIn(l, LabelChar)

\* the last label of validators.domain: [A-Za-z0-9][A-Za-z0-9-_]{0,61}[A-Za-z]
IsTopLevelLabel(l) ==
    /\ Len(l) >= 2
    /\ Len(l) <= 63
    /\ l[1] \in AlNum
    /\ l[Len(l)] \in Letter
    /\ AllIn(l, LabelChar)

\* validators.domain(query): dot-separated labels, the last one a TLD
IsDomain(s) ==
    LET labels == SplitOn(s, ".")
    IN  /\ Len(labels) >= 2
        /\ \A i \in 1..(Len(labels) - 1) : IsDomainLabel(labels[i])
        /\ IsTopLevelLabel(labels[Len(labels)])

\* validators.ipv4(query): four decimal groups, each below 256
IsIpv4(s) ==
    LET groups == SplitOn(s, ".")
    IN  /\ Len(groups) = 4
        /\ \A i \in 1..4 :
              /\ groups[i] # <<>>
              /\ AllIn(groups[i], Digit)
              /\ IntOf(groups[i]) < 256

\* one group of an IPv6 literal: one to four hexadecimal digits
IsHexGroup(g) ==
    /\ Len(g) >= 1
    /\ Len(g) <= 4
    /\ AllIn(g, Digit \cup HexLetter)

\* validators.ipv6(query): colon-separated hexadecimal groups, eight of them
\* or fewer around a single "::"; a trailing dotted quad stands for two groups
IsIpv6(s) ==
    LET parts    == SplitOn(s, ":")
        n        == Len(parts)
        hasV4    == n >= 1 /\ Contains(parts[n], ".")
        groups   == IF hasV4 THEN SubSeq(parts, 1, n - 1) ELSE parts
        m        == Len(groups)
        maxGroup == IF hasV4 THEN 6 ELSE 8
        blanks   == {i \in 1..m : groups[i] = <<>>}
        filled   == m - Cardinality(blanks)
    IN  /\ n >= 2
        /\ hasV4 => IsIpv4(parts[n])
        /\ \A i \in 1..m : groups[i] # <<>> => IsHexGroup(groups[i])
        /\ \/ blanks = {} /\ m = maxGroup
           \* "::" inside the address
           \/ /\ Cardinality(blanks) = 1
              /\ (blanks \cap {1, m} = {} \/ (hasV4 /\ blanks = {m} /\ m > 1))
              /\ filled < maxGroup
           \* leading or trailing "::"
           \/ /\ Cardinality(blanks) = 2
              /\ (m > 2 \/ hasV4)
              /\ (blanks = {1, 2} \/ (blanks = {m - 1, m} /\ ~hasV4))
              /\ filled < maxGroup
           \* "::" alone
           \/ Cardinality(blanks) = 3 /\ m = 3 /\ ~hasV4

\* re.match(r'^\+?[0-9\s\-\(\)]{7,20}$', query)
IsPhone(s) ==
    LET body == IF s # <<>> /\ s[1] = "+" THEN Tail(s) ELSE s
    IN  /\ Len(body) >= PhoneMinLen
        /\ Len(body) <= PhoneMaxLen
        /\ AllIn(body, PhoneChar)

\* re.sub(r'[^0-9]', '', query)
NormalizePhoneDigitsOnly(s) == RemoveChars(s, {s[i] : i \in 1..Len(s)} \ Digit)

\* re.sub(r'[^0-9+]', '', query)
NormalizePhone(s) == RemoveChars(s, {s[i] : i \in 1..Len(s)} \ (Digit \cup {"+"}))

\* re.match(r'^[a-zA-Z0-9_\.]{3,30}$', query)
IsUsername(s) ==
    /\ Len(s) >= UsernameMinLen
    /\ Len(s) <= UsernameMaxLen
    /\ AllIn(s, UsernameChar)

(***************************************************************************)
(* InputHandler: the classifier.                                           *)
(***************************************************************************)
\* the dict literal {} : a function with no key
EmptyDict == <<>>

\* username, domain = query.split('@'); {"email": ..., "username": ..., "domain": ...}
EmailFieldsNoUsername(q) ==
    LET parts == SplitOn(q, "@")
    IN  ("email" :> q) @@ ("domain" :> parts[2])

EmailFields(q) ==
    LET parts == SplitOn(q, "@")
    IN  ("email" :> q) @@ ("username" :> parts[1]) @@ ("domain" :> parts[2])

\* if len(query.split()) >= 1
NameRuleAlways(q) == TRUE

NameRule(q) == HasWord(q)

Result(valid, type, data) == [valid |-> valid, type |-> type, data |-> data]

\* the rules of the stripped query, tried in the order of the if statements
IdentifyUsernameFirst(q) ==
    IF IsEmail(q) THEN Result(TRUE, "email", EmailFields(q))
    ELSE IF IsUsername(q) THEN Result(TRUE, "username", ("username" :> q))
    ELSE IF IsDomain(q) THEN Result(TRUE, "domain", ("domain" :> q))
    ELSE IF IsIpv4(q) \/ IsIpv6(q) THEN Result(TRUE, "ip", ("ip" :> q))
    ELSE IF IsPhone(q) THEN Result(TRUE, "phone", ("phone" :> NormalizePhone(q)))
    ELSE IF NameRule(q) THEN Result(TRUE, "name", ("name" :> q))
    ELSE Result(FALSE, "unknown", EmptyDict)

Identify(q) ==
    IF IsEmail(q) THEN Result(TRUE, "email", EmailFields(q))
    ELSE IF IsDomain(q) THEN Result(TRUE, "domain", ("domain" :> q))
    ELSE IF IsIpv4(q) \/ IsIpv6(q) THEN Result(TRUE, "ip", ("ip" :> q))
    ELSE IF IsPhone(q) THEN Result(TRUE, "phone", ("phone" :> NormalizePhone(q)))
    ELSE IF IsUsername(q) THEN Result(TRUE, "username", ("username" :> q))
    ELSE IF NameRule(q) THEN Result(TRUE, "name", ("name" :> q))
    ELSE Result(FALSE, "unknown", EmptyDict)

\* InputHandler.validate_and_identify(query): (is_valid, input_type, parsed_data)
validate_and_identify(query) ==
    IF query = <<>> THEN Result(FALSE, "unknown", EmptyDict)
    ELSE Identify(Strip(query))

SourceNames == {"duckduckgo", "bing", "whois", "ipinfo", "hunter", "haveibeenpwned"}

\* sources = {every source: False}; sources.update({...: True})
Enable(on) == [src \in SourceNames |-> src \in on]

_get_sources_for_type_bing(input_type) ==
    CASE input_type = "name" -> Enable({"duckduckgo", "bing"})
      [] input_type = "email" -> Enable({"duckduckgo", "bing", "hunter", "haveibeenpwned"})
      [] input_type = "phone" -> Enable({"duckduckgo", "bing"})
      [] input_type = "username" -> Enable({"duckduckgo", "bing", "haveibeenpwned"})
      [] input_type = "domain" -> Enable({"duckduckgo", "bing", "whois", "hunter"})
      [] input_type = "ip" -> Enable({"whois", "ipinfo"})
      [] OTHER -> Enable({})

\* InputHandler._get_sources_for_type(input_type)
_get_sources_for_type(input_type) ==
    CASE input_type = "name" -> Enable({"duckduckgo", "bing"})
      [] input_type = "email" -> Enable({"duckduckgo", "hunter", "haveibeenpwned"})
      [] input_type = "phone" -> Enable({"duckduckgo", "bing"})
      [] input_type = "username" -> Enable({"duckduckgo", "bing", "haveibeenpwned"})
      [] input_type = "domain" -> Enable({"duckduckgo", "whois", "hunter"})
      [] input_type = "ip" -> Enable({"whois", "ipinfo"})
      [] OTHER -> Enable({})

\* InputHandler.parse_query(query)
parse_query(query) ==
    LET r == validate_and_identify(query)
    IN  IF ~r.valid
        THEN [valid |-> FALSE, query |-> query, type |-> "unknown",
              data |-> EmptyDict]
        ELSE [valid |-> TRUE, query |-> query, type |-> r.type,
              data |-> r.data, sources |-> _get_sources_for_type(r.type)]

(***************************************************************************)
(* Python dict and list operations.                                        *)
(***************************************************************************)
\* d.get(k, default)
Get(d, k, default) == IF k \in DOMAIN d THEN d[k] ELSE default

\* d[k] = v
Put(d, k, v) == [x \in DOMAIN d \cup {k} |-> IF x = k THEN v ELSE d[x]]

\* bool(x) of a dict or a list
Truthy(x) == DOMAIN x # {}

\* xs[:n]
Take(xs, n) == SubSeq(xs, 1, IF Len(xs) < n THEN Len(xs) ELSE n)

\* len(d) == 1 and "error" in d
IsErrorOnly(d) == Cardinality(DOMAIN d) = 1 /\ "error" \in DOMAIN d

(***************************************************************************)
(* Program constants of the adapters and of the pipeline.                  *)
(***************************************************************************)
\* settings.MAX_RESULTS_PER_SOURCE
MAX_RESULTS_PER_SOURCE == 10
\* search_results["duckduckgo"][:3], max_urls=3
TopUrls == 3

(***************************************************************************)
(* What the network can answer.  A text is a sequence of words.            *)
(***************************************************************************)
\* the result elements a search page can carry: title, url, snippet
PageItems ==
    { [title |-> <<"Acme">>, url |-> "http://a.example", snippet |-> <<"About", "Acme">>],
      [title |-> <<"Contact", "Acme">>, url |-> "http://b.example",
       snippet |-> <<"LinkedIn", "profile">>] }

SeqsUpTo(S, n) == UNION {[1..k -> S] : k \in 0..n}

\* a search engine answers with a page of result elements, or the request fails
SearchResponses ==
    {[kind |-> "error"]} \cup {[kind |-> "ok", items |-> xs] : xs \in SeqsUpTo(PageItems, MaxItems)}

\* an API answers with a JSON body, with an HTTP error status, or not at all
IpinfoResponses ==
    { [kind |-> "error"],
      [kind |-> "ok", json |-> [ip |-> "1.1.1.1", city |-> "Sydney", country |-> "AU"]],
      [kind |-> "ok", json |-> EmptyDict],
      [kind |-> "ok", json |-> [error |-> [title |-> "Wrong ip"]]] }

HunterResponses ==
    { [kind |-> "error"],
      [kind |-> "ok", json |-> [data |-> [domain |-> "a.aa", emails |-> <<[value |-> "x@a.aa"]>>]]],
      [kind |-> "ok", json |-> [data |-> [email |-> "a@a.aa", status |-> "valid"]]],
      [kind |-> "ok", json |-> EmptyDict],
      [kind |-> "ok", json |-> [errors |-> <<[details |-> "limit reached"]>>]] }

Breaches == {[Name |-> "Adobe"], [Name |-> "LinkedIn"]}

HibpResponses ==
    { [kind |-> "error"], [kind |-> "http_error", status |-> 429],
      [kind |-> "http_error", status |-> 404] }
        \cup {[kind |-> "ok", json |-> xs] : xs \in SeqsUpTo(Breaches, MaxItems)}

\* the registry: the structured lookup (python-whois), then the whois command
WhoisResponses ==
    { [primary |-> "ok", record |-> [domain_name |-> "A.AA", registrar |-> "Reg"]],
      [primary |-> "ok", record |-> [registrar |-> "Reg"]],
      [primary |-> "error", fallback |-> "ok",
       lines |-> << <<"Domain Name", "a.aa">>, <<"Name Server", "ns1">>, <<"Name Server", "ns2">> >>],
      [primary |-> "error", fallback |-> "ok", lines |-> << >>],
      [primary |-> "error", fallback |-> "error"] }

IpWhoisResponses ==
    { [hostname |-> "one.one", fallback |-> "ok", lines |-> << <<"NetName", "ONE">>, <<"Country", "AU">>, <<"country", "US">> >>],
      [hostname |-> "", fallback |-> "ok", lines |-> << >>],
      [hostname |-> "one.one", fallback |-> "error"],
      [hostname |-> "", fallback |-> "error"] }

(***************************************************************************)
(* SearchEngineScraper (app/scrapers/search_engines.py).                   *)
(***************************************************************************)
\* the result dicts built from the page: the first max_results elements
ScrapedResults(items, engine) ==
    LET kept == Take(items, MAX_RESULTS_PER_SOURCE)
    IN  [i \in 1..Len(kept) |->
            [title |-> kept[i].title, url |-> kept[i].url,
             snippet |-> kept[i].snippet, source |-> engine]]

\* search_duckduckgo(query): any exception is logged and [] is returned
search_duckduckgo(resp) ==
    IF resp.kind = "error" THEN <<>> ELSE ScrapedResults(resp.items, "DuckDuckGo")

\* search_bing(query)
search_bing(resp) ==
    IF resp.kind = "error" THEN <<>> ELSE ScrapedResults(resp.items, "Bing")

\* search_all: if ddg_results: results["duckduckgo"] = ddg_results
StoreSearchAlways(results, engine, found) == Put(results, engine, found)

StoreSearch(results, engine, found) ==
    IF Truthy(found) THEN Put(results, engine, found) ELSE results

(***************************************************************************)
(* APISources (app/scrapers/api_sources.py).                               *)
(***************************************************************************)
\* fetch_ipinfo(ip)
fetch_ipinfo(has_key, resp) ==
    IF ~has_key THEN [error |-> "IPinfo API key not set"]
    ELSE IF resp.kind # "ok" THEN [error |-> "Error fetching IPinfo"]
    ELSE IF "error" \in DOMAIN resp.json
         THEN [error |-> Get(resp.json["error"], "title", "Unknown error")]
         ELSE resp.json

\* fetch_hunter_email_info: if "@" in domain_or_email the email-verifier
\* endpoint is requested, the domain-search endpoint otherwise
HunterEndpoint(domain_or_email) ==
    IF \E i \in 1..Len(domain_or_email) : domain_or_email[i] = "@"
    THEN "email-verifier" ELSE "domain-search"

\* fetch_hunter_email_info(domain_or_email)
fetch_hunter_email_info_keyless(has_key, resp) ==
    IF resp.kind # "ok" THEN [error |-> "Error fetching Hunter.io data"]
    ELSE IF "errors" \in DOMAIN resp.json
         THEN [error |-> IF Truthy(resp.json["errors"])
                         THEN resp.json["errors"][1].details ELSE "Unknown error"]
         ELSE Get(resp.json, "data", EmptyDict)

fetch_hunter_email_info(has_key, resp) ==
    IF ~has_key THEN [error |-> "Hunter.io API key not set"]
    ELSE IF resp.kind # "ok" THEN [error |-> "Error fetching Hunter.io data"]
    ELSE IF "errors" \in DOMAIN resp.json
         THEN [error |-> IF Truthy(resp.json["errors"])
                         THEN resp.json["errors"][1].details ELSE "Unknown error"]
         ELSE Get(resp.json, "data", EmptyDict)

\* fetch_haveibeenpwned(email_or_username): 404 is "in no breach", not an error
fetch_haveibeenpwned_404_fails(has_key, resp) ==
    IF ~has_key THEN <<[error |-> "HaveIBeenPwned API key not set"]>>
    ELSE IF resp.kind = "http_error"
         THEN <<[error |-> "HTTP error fetching HaveIBeenPwned data"]>>
    ELSE IF resp.kind # "ok" THEN <<[error |-> "Error fetching HaveIBeenPwned data"]>>
    ELSE resp.json

fetch_haveibeenpwned(has_key, resp) ==
    IF ~has_key THEN <<[error |-> "HaveIBeenPwned API key not set"]>>
    ELSE IF resp.kind = "http_error"
         THEN IF resp.status = 404 THEN <<>>
              ELSE <<[error |-> "HTTP error fetching HaveIBeenPwned data"]>>
    ELSE IF resp.kind # "ok" THEN <<[error |-> "Error fetching HaveIBeenPwned data"]>>
    ELSE resp.json

\* fetch_all: if ip_info and not (len(ip_info) == 1 and "error" in ip_info)
StoreApiAlways(results, name, info) == Put(results, name, info)

StoreApi(results, name, info) ==
    IF Truthy(info) /\ ~IsErrorOnly(info) THEN Put(results, name, info) ELSE results

\* fetch_all: if hibp_data and not (len(hibp_data) == 1 and "error" in hibp_data[0])
StoreHibp(results, found) ==
    IF Truthy(found) /\ ~(Len(found) = 1 /\ "error" \in DOMAIN found[1])
    THEN Put(results, "haveibeenpwned", found) ELSE results

(***************************************************************************)
(* WhoisLookup (app/scrapers/whois_lookup.py).                             *)
(***************************************************************************)
\* str.lower() of the words the model uses
Lower(w) ==
    CASE w = "Domain Name" -> "domain name"
      [] w = "Name Server" -> "name server"
      [] w = "NetName" -> "netname"
      [] w = "Country" -> "country"
      [] w = "Contact" -> "contact"
      [] w = "LinkedIn" -> "linkedin"
      [] w = "Acme" -> "acme"
      [] w = "About" -> "about"
      [] w = "Email" -> "email"
      [] w = "Advertisement" -> "advertisement"
      [] OTHER -> w

\* field_mapping of _parse_raw_whois
FieldMapping ==
    [ k \in {"domain name", "registrar", "created", "creation date",
             "registrar registration expiration date", "updated date",
             "name server", "status", "registrant name", "registrant organization",
             "registrant email", "admin name", "admin email", "tech name",
             "tech email", "netname", "netrange", "organization", "org", "cidr",
             "country"} |->
        CASE k = "domain name" -> "domain_name"
          [] k = "registrar" -> "registrar"
          [] k \in {"created", "creation date"} -> "creation_date"
          [] k = "registrar registration expiration date" -> "expiration_date"
          [] k = "updated date" -> "updated_date"
          [] k = "name server" -> "name_servers"
          [] k = "status" -> "status"
          [] k = "registrant name" -> "registrant_name"
          [] k = "registrant organization" -> "registrant_organization"
          [] k = "registrant email" -> "registrant_email"
          [] k = "admin name" -> "admin_name"
          [] k = "admin email" -> "admin_email"
          [] k = "tech name" -> "tech_name"
          [] k = "tech email" -> "tech_email"
          [] k = "netname" -> "netname"
          [] k = "netrange" -> "netrange"
          [] k \in {"organization", "org"} -> "organization"
          [] k = "cidr" -> "cidr"
          [] k = "country" -> "country" ]

\* "Handle name servers separately to collect them into a list"
Accumulates(mapped_key) == mapped_key = "name_servers"

\* the loop of _parse_raw_whois that keeps the first value of a repeated key
RECURSIVE ExtractFieldsKeepFirst(_, _)
ExtractFieldsKeepFirst(lines, extracted) ==
    IF lines = <<>> THEN extracted
    ELSE LET key   == Lower(Head(lines)[1])
             value == Head(lines)[2]
         IN  IF key \notin DOMAIN FieldMapping
             THEN ExtractFieldsKeepFirst(Tail(lines), extracted)
             ELSE LET mapped == FieldMapping[key]
                  IN  IF Accumulates(mapped)
                      THEN ExtractFieldsKeepFirst(Tail(lines),
                               Put(extracted, mapped,
                                   Append(Get(extracted, mapped, <<>>), value)))
                      ELSE IF mapped \in DOMAIN extracted
                      THEN ExtractFieldsKeepFirst(Tail(lines), extracted)
                      ELSE ExtractFieldsKeepFirst(Tail(lines), Put(extracted, mapped, value))

\* the loop of _parse_raw_whois over the "key: value" lines, in order
RECURSIVE ExtractFields(_, _)
ExtractFields(lines, extracted) ==
    IF lines = <<>> THEN extracted
    ELSE LET key   == Lower(Head(lines)[1])
             value == Head(lines)[2]
         IN  IF key \notin DOMAIN FieldMapping THEN ExtractFields(Tail(lines), extracted)
             ELSE LET mapped == FieldMapping[key]
                  IN  IF Accumulates(mapped)
                      THEN ExtractFields(Tail(lines),
                               Put(extracted, mapped,
                                   Append(Get(extracted, mapped, <<>>), value)))
                      ELSE ExtractFields(Tail(lines), Put(extracted, mapped, value))

\* _parse_raw_whois(raw_output)
_parse_raw_whois(lines) == ExtractFields(lines, [raw_text |-> lines])

\* _lookup_domain without the fallback to the whois command
_lookup_domain_no_fallback(domain, resp) ==
    IF resp.primary = "ok" THEN resp.record
    ELSE [error |-> "WHOIS lookup failed", domain |-> domain]

\* _lookup_domain(domain): python-whois first, the whois command on failure
_lookup_domain(domain, resp) ==
    IF resp.primary = "ok" THEN resp.record
    ELSE IF resp.fallback = "ok" THEN _parse_raw_whois(resp.lines)
    ELSE [error |-> "WHOIS lookup failed", domain |-> domain]

\* _lookup_ip without "if host_info: return host_info"
_lookup_ip_error_only(ip, resp) ==
    LET host_info == IF resp.hostname # "" THEN [hostname |-> resp.hostname] ELSE EmptyDict
    IN  IF resp.fallback = "ok"
        THEN LET whois_info == _parse_raw_whois(resp.lines)
             IN  [k \in DOMAIN host_info \cup DOMAIN whois_info |->
                     IF k \in DOMAIN whois_info THEN whois_info[k] ELSE host_info[k]]
        ELSE [error |-> "WHOIS lookup failed", ip |-> ip]

\* _lookup_ip(ip): the host name, then the whois command
_lookup_ip(ip, resp) ==
    LET host_info == IF resp.hostname # "" THEN [hostname |-> resp.hostname] ELSE EmptyDict
    IN  IF resp.fallback = "ok"
        THEN LET whois_info == _parse_raw_whois(resp.lines)
             IN  [k \in DOMAIN host_info \cup DOMAIN whois_info |->
                     IF k \in DOMAIN whois_info THEN whois_info[k] ELSE host_info[k]]
        ELSE IF Truthy(host_info) THEN host_info
        ELSE [error |-> "WHOIS lookup failed", ip |-> ip]

\* the lookups a call of _lookup_domain / _lookup_ip attempts, in order:
\* _lookup_domain runs the whois command only in the except branch of
\* whois.whois, _lookup_ip asks for the host name and always runs the command
LookupTiers(kind, resp) ==
    IF kind = "domain"
    THEN IF resp.primary = "ok" THEN <<"whois.whois">>
         ELSE <<"whois.whois", "whois command">>
    ELSE <<"socket.getfqdn", "whois command">>

\* perform_lookup: if domain_info: result["domain"] = domain_info
StoreWhois(result, key, info) ==
    IF Truthy(info) THEN Put(result, key, info) ELSE result

(***************************************************************************)
(* ResultParser (app/parsers/result_parser.py).                            *)
(***************************************************************************)
\* the keys of the dict parse_and_categorize starts from
ParserCategories ==
    {"contact_info", "social_profiles", "domain_info", "breach_data",
     "location_data", "related_links", "raw_data"}

\* _format_dict_as_text(data): the text rendering of a dict
_format_dict_as_text(data) == [formatted |-> data]

ItemUnattributed(title, source, content_type, content) ==
    [title |-> title, source |-> "", content_type |-> content_type, content |-> content]

Item(title, source, content_type, content) ==
    [title |-> title, source |-> source, content_type |-> content_type,
     content |-> content]

\* {key: data[key] for key in keys if key in data and data[key]}
PickFields(data, keys) ==
    [k \in {x \in keys \cap DOMAIN data : data[x] # ""} |-> data[k]]

\* ad_indicators of is_ad_or_irrelevant: the words and phrases of the patterns
AdIndicators ==
    { <<"ad">>, <<"advertisement">>, <<"sponsor">>,
      <<"click", "here">>, <<"sign", "up">>, <<"subscribe">>, <<"free", "trial">>,
      <<"terms", "of", "service">>, <<"privacy", "policy">>, <<"cookie", "policy">>,
      <<"all", "rights", "reserved">>, <<"copyright">> }

\* is_ad_or_irrelevant(text): re.search(pattern, text, re.IGNORECASE) of some
\* indicator, as whole words, in a text that is a sequence of words
is_ad_or_irrelevant(text) ==
    \E phrase \in AdIndicators :
        \E i \in 1..Len(text) :
            /\ i + Len(phrase) - 1 <= Len(text)
            /\ \A j \in 1..Len(phrase) : Lower(text[i + j - 1]) = phrase[j]

\* term in text.lower(), for a text that is a sequence of words
HasTerm(text, term) == \E i \in 1..Len(text) : Lower(text[i]) = term

ProfileTerms == {"profile", "linkedin", "facebook", "twitter", "social"}

\* content[:100]: the number of leading characters a signature keeps.  A text
\* is a sequence of tokens here, and the prefix is counted in tokens.
SignatureLen == 100

\* str(content) of a list of texts: "['a', 'b']"
RECURSIVE JoinTexts(_)
JoinTexts(texts) ==
    IF texts = <<>> THEN <<>>
    ELSE IF Len(texts) = 1 THEN texts[1]
    ELSE texts[1] \o <<", ">> \o JoinTexts(Tail(texts))

ListRepr(texts) == <<"[">> \o JoinTexts(texts) \o <<"]">>

\* the signature remove_duplicates gives an item: the first 100 characters of
\* a text content or of the str() of a list content; the content is a text
\* (f-string), a list of texts, or the text _format_dict_as_text renders
SignatureWholeContent(item) ==
    IF "content" \in DOMAIN item THEN [content |-> item.content] ELSE [item |-> item]

\* a signature that also holds the title and the source of the item
SignatureWithTitleAndSource(item) ==
    IF "content" \in DOMAIN item
    THEN IF "text" \in DOMAIN item.content
         THEN [prefix |-> Take(item.content.text, SignatureLen),
               title |-> item.title, source |-> item.source]
         ELSE IF "list" \in DOMAIN item.content
         THEN [prefix |-> Take(ListRepr(item.content.list), SignatureLen),
               title |-> item.title, source |-> item.source]
         ELSE [formatted |-> item.content, title |-> item.title, source |-> item.source]
    ELSE [item |-> item]

Signature(item) ==
    IF "content" \in DOMAIN item
    THEN IF "text" \in DOMAIN item.content
         THEN [prefix |-> Take(item.content.text, SignatureLen)]
         ELSE IF "list" \in DOMAIN item.content
         THEN [prefix |-> Take(ListRepr(item.content.list), SignatureLen)]
         ELSE [formatted |-> item.content]
    ELSE [item |-> item]

\* remove_duplicates(items): the first item of each signature, in order
RECURSIVE remove_duplicates_keep_last(_)
remove_duplicates_keep_last(items) ==
    IF items = <<>> THEN <<>>
    ELSE IF \E i \in 2..Len(items) : Signature(items[i]) = Signature(Head(items))
         THEN remove_duplicates_keep_last(Tail(items))
         ELSE <<Head(items)>> \o remove_duplicates_keep_last(Tail(items))

RECURSIVE remove_duplicates(_)
remove_duplicates(items) ==
    IF items = <<>> THEN <<>>
    ELSE LET front == remove_duplicates(SubSeq(items, 1, Len(items) - 1))
             last  == items[Len(items)]
         IN  IF \E i \in 1..(Len(items) - 1) : Signature(items[i]) = Signature(last)
             THEN front ELSE Append(front, last)

\* the items the WHOIS branch appends, per category
WhoisDomainInfo(whois_data) ==
    IF "domain" \in DOMAIN whois_data /\ "domain_name" \in DOMAIN whois_data["domain"]
    THEN << Item(<<"WHOIS Information for", whois_data["domain"]["domain_name"]>>,
                 "WHOIS", "pre", _format_dict_as_text(whois_data["domain"])) >>
    ELSE <<>>

WhoisContactInfo(whois_data) ==
    IF "domain" \in DOMAIN whois_data
    THEN LET found   == PickFields(whois_data["domain"],
                            {"registrant_name", "registrant_email",
                             "registrant_phone", "registrant_organization"})
             \* contact_info[key.replace("registrant_", "")] = domain_data[key]
             short   == [registrant_name |-> "name", registrant_email |-> "email",
                         registrant_phone |-> "phone",
                         registrant_organization |-> "organization"]
             contact == [k \in {short[x] : x \in DOMAIN found} |->
                            found[CHOOSE x \in DOMAIN found : short[x] = k]]
         IN  IF Truthy(contact)
             THEN << Item(<<"Domain Registrant Contact Information">>, "WHOIS", "pre",
                          _format_dict_as_text(contact)) >>
             ELSE <<>>
    ELSE <<>>

WhoisRawData(whois_data) ==
    IF "ip" \in DOMAIN whois_data
    THEN << Item(<<"WHOIS Information for IP",
                   Get(whois_data["ip"], "ip", Get(whois_data["ip"], "query", "IP"))>>,
                 "WHOIS", "pre", _format_dict_as_text(whois_data["ip"])) >>
    ELSE <<>>

WhoisLocation(whois_data) ==
    IF "ip" \in DOMAIN whois_data
    THEN LET location == PickFields(whois_data["ip"],
                             {"country", "city", "region", "address", "netname",
                              "organization"})
         IN  IF Truthy(location)
             THEN << Item(<<"IP Location Information">>, "WHOIS", "pre",
                          _format_dict_as_text(location)) >>
             ELSE <<>>
    ELSE <<>>

\* f"{result['snippet']}\n\nLink: {result['url']}"
LinkedSnippet(result) == result.snippet \o <<"\n\nLink: ", result.url>>

\* any(term in title.lower() or term in snippet.lower() for term in terms)
Mentions(result, terms) ==
    \E t \in terms : HasTerm(result.title, t) \/ HasTerm(result.snippet, t)

\* the items one search engine's results add to a category, in result order
RECURSIVE SearchMatches(_, _, _)
SearchMatches(found, engine, terms) ==
    IF found = <<>> THEN <<>>
    ELSE LET result == Head(found)
             rest   == SearchMatches(Tail(found), engine, terms)
         IN  IF Mentions(result, terms)
             THEN << Item(result.title, engine, "text",
                          [text |-> LinkedSnippet(result)]) >> \o rest
             ELSE rest

SearchLinks(found, engine) ==
    IF found = <<>> THEN <<>>
    ELSE << Item(<<"Related Links from", engine>>, engine, "list",
                 [list |-> [i \in 1..Len(found) |->
                               found[i].title \o <<" - ", found[i].url>>]]) >>

\* the DuckDuckGo block, then the Bing block
SearchItems(search_results, terms) ==
    SearchMatches(Get(search_results, "duckduckgo", <<>>), "DuckDuckGo", terms)
        \o SearchMatches(Get(search_results, "bing", <<>>), "Bing", terms)

SearchRelated(search_results) ==
    SearchLinks(Get(search_results, "duckduckgo", <<>>), "DuckDuckGo")
        \o SearchLinks(Get(search_results, "bing", <<>>), "Bing")

\* the items the API branch appends, per category
IpinfoLocation(api_results) ==
    IF "ipinfo" \in DOMAIN api_results
    THEN LET location == PickFields(api_results["ipinfo"],
                             {"ip", "hostname", "city", "region", "country", "loc",
                              "org", "postal", "timezone"})
         IN  IF Truthy(location)
             THEN << Item(<<"IP Location Information for",
                            Get(api_results["ipinfo"], "ip", "IP")>>,
                          "IPinfo.io", "pre", _format_dict_as_text(location)) >>
             ELSE <<>>
    ELSE <<>>

HunterDomainInfo(api_results) ==
    IF "hunter" \in DOMAIN api_results /\ "domain" \in DOMAIN api_results["hunter"]
    THEN LET h == api_results["hunter"]
         IN  << Item(<<"Domain Information for", h["domain"]>>, "Hunter.io", "pre",
                     _format_dict_as_text(
                         [domain |-> h["domain"],
                          disposable |-> Get(h, "disposable", "False"),
                          webmail |-> Get(h, "webmail", "False"),
                          pattern |-> Get(h, "pattern", "None")])) >>
    ELSE <<>>

HunterEmailInfo(api_results) ==
    IF "hunter" \in DOMAIN api_results /\ "email" \in DOMAIN api_results["hunter"]
    THEN LET h == api_results["hunter"]
         IN  << Item(<<"Email Information for", h["email"]>>, "Hunter.io", "pre",
                     _format_dict_as_text(
                         [email |-> h["email"],
                          status |-> Get(h, "status", "unknown"),
                          disposable |-> Get(h, "disposable", "False"),
                          webmail |-> Get(h, "webmail", "False"),
                          sources |-> Len(Get(h, "sources", <<>>))])) >>
    ELSE <<>>

\* one line of the e-mail list: the address, the name and the position if known
EmailLine(e) ==
    <<e.value>>
        \o (IF {"first_name", "last_name"} \subseteq DOMAIN e
            THEN <<" - ", e.first_name, " ", e.last_name>> ELSE <<>>)
        \o (IF "position" \in DOMAIN e THEN <<" (", e.position, ")">> ELSE <<>>)

HunterEmails(api_results) ==
    IF "hunter" \in DOMAIN api_results /\ "emails" \in DOMAIN api_results["hunter"]
    THEN LET h      == api_results["hunter"]
             valued == SelectSeq(h["emails"], LAMBDA e : "value" \in DOMAIN e)
         IN  IF valued # <<>>
             THEN << Item(<<"Email Addresses Found for", Get(h, "domain", "Domain")>>,
                          "Hunter.io", "list",
                          [list |-> [i \in 1..Len(valued) |-> EmailLine(valued[i])]]) >>
             ELSE <<>>
    ELSE <<>>

\* the text of one breach, field by field
BreachText(breach) ==
    <<"Name: ", Get(breach, "Name", "Unknown"),
      "\nTitle: ", Get(breach, "Title", "Unknown"),
      "\nDomain: ", Get(breach, "Domain", "Unknown"),
      "\nBreach Date: ", Get(breach, "BreachDate", "Unknown"),
      "\nRecords Exposed: ", Get(breach, "PwnCount", "0"),
      "\nData Compromised: ", Get(breach, "DataClasses", ""),
      "\nDescription: ", Get(breach, "Description", "No description available")>>

HibpBreaches(api_results) ==
    IF "haveibeenpwned" \in DOMAIN api_results /\ api_results["haveibeenpwned"] # <<>>
    THEN LET found == api_results["haveibeenpwned"]
         IN  << Item(<<"Data Breaches", Len(found)>>, "Have I Been Pwned", "list",
                     [list |-> [i \in 1..Len(found) |-> BreachText(found[i])]]) >>
    ELSE <<>>

\* the three top-level keys parse_and_categorize reads
Branch(results, key) == Get(results, key, EmptyDict)

\* the items parse_and_categorize appends to each category, in the order of
\* its branches: WHOIS, DuckDuckGo, Bing, IPinfo, Hunter.io, HaveIBeenPwned
Collected(results) ==
    LET whois_data     == Branch(results, "whois")
        search_results == Branch(results, "search_engines")
        api_results    == Branch(results, "api_sources")
    IN      [contact_info |->
                 WhoisContactInfo(whois_data)
                     \o SearchItems(search_results, {"contact"})
                     \o HunterEmailInfo(api_results) \o HunterEmails(api_results),
             social_profiles |-> SearchItems(search_results, ProfileTerms),
             domain_info |-> WhoisDomainInfo(whois_data) \o HunterDomainInfo(api_results),
             breach_data |-> HibpBreaches(api_results),
             location_data |-> WhoisLocation(whois_data) \o IpinfoLocation(api_results),
             related_links |-> SearchRelated(search_results),
             raw_data |-> WhoisRawData(whois_data)]

\* parse_and_categorize(results)
parse_and_categorize(results) ==
    [category \in ParserCategories |-> remove_duplicates(Collected(results)[category])]

\* the categories generate_summary counts, in the order of its lines
SummaryOrder ==
    <<"contact_info", "social_profiles", "domain_info", "breach_data",
      "location_data", "related_links">>

\* the number a line reports: len(category), and for related_links the number
\* of links in the list items of the category
CountOfItems(categorized_results, c) == Len(Get(categorized_results, c, <<>>))

CountOf(categorized_results, c) ==
    LET items == Get(categorized_results, c, <<>>)
        listLen(i) == IF "list" \in DOMAIN items[i].content
                      THEN Len(items[i].content.list) ELSE 0
        RECURSIVE sum(_)
        sum(i) == IF i = 0 THEN 0 ELSE sum(i - 1) + listLen(i)
    IN  IF c = "related_links" THEN sum(Len(items)) ELSE Len(items)

\* one line per category that holds an item
RECURSIVE SummaryLines(_, _)
SummaryLines(categorized_results, k) ==
    IF k = 0 THEN <<>>
    ELSE LET c == SummaryOrder[k]
         IN  SummaryLines(categorized_results, k - 1)
                 \o (IF Len(Get(categorized_results, c, <<>>)) > 0
                     THEN << <<c, CountOf(categorized_results, c)>> >> ELSE <<>>)

\* generate_summary(categorized_results): the lines that "<br>".join() joins
generate_summary_single(categorized_results) ==
    LET lines == SummaryLines(categorized_results, Len(SummaryOrder))
    IN  IF lines = <<>> THEN << <<"No significant information found", 0>> >> ELSE lines

generate_summary(categorized_results) ==
    LET lines == SummaryLines(categorized_results, Len(SummaryOrder))
    IN  IF lines = <<>>
        THEN << <<"No significant information found", 0>>,
                <<"Consider trying a different query", 0>> >>
        ELSE lines

(***************************************************************************)
(* WebhookExporter (app/exporters/webhook_exporter.py).                    *)
(***************************************************************************)
\* the category names format_for_n8n copies
N8nCategories ==
    {"emails", "phone_numbers", "social_links", "addresses", "business_info",
     "leaks", "domains", "ips"}

\* format_for_n8n(results, query), without the timestamp
format_for_n8n(results, query) ==
    [query |-> query,
     summary |-> Get(results, "summary", <<"No summary available">>),
     categories |->
         [c \in {x \in N8nCategories \cap DOMAIN results : Truthy(results[x])} |->
             results[c]]]

(***************************************************************************)
(* utils.sanitize_input and the classes the request handler builds.        *)
(***************************************************************************)
\* sanitize_input(input_str): re.sub(r'[<>&\'";]', '', input_str).strip()
sanitize_input_strip_only(input_str) == Strip(input_str)

sanitize_input(input_str) == Strip(RemoveChars(input_str, Dangerous))

\* the methods class WebContentScraper defines
WebContentScraperMethods == {"__init__", "extract_text_from_url", "fetch_url", "_extract_title"}

(***************************************************************************)
(* The request handlers routes.search and routes.api_search.               *)
(***************************************************************************)
VARIABLES
    c_input,             \* the string handed to the classifier
    c_step,              \* "input", then "identified" or "parsed"
    c_result             \* what the classifier returned

cvars == <<c_input, c_step, c_result>>

VARIABLES
    r_results,           \* the dict handed to parse_and_categorize
    r_step,              \* "input", "categorized", "summarized", "formatted"
    r_collected,         \* parse_and_categorize's dict before it removes duplicates
    r_categorized,       \* what parse_and_categorize returned
    r_summary,           \* what generate_summary returned
    r_payload            \* what format_for_n8n returned

rvars == <<r_results, r_step, r_collected, r_categorized, r_summary, r_payload>>

VARIABLES
    entry,               \* the handler the request reached
    raw_query,           \* the query parameter of the request
    webhook_url,         \* the webhook_url parameter ("" when absent)
    db,                  \* the db parameter of the handler ("" until supplied)
    SessionLocal,        \* the session factory of app/__init__.py, or "None"
    db_supplied,         \* the values get_db has yielded to Depends, in order
    session_state,       \* "none", then "open" and "closed" for the session
    api_keys,            \* the adapters whose API key the settings hold
    pc,                  \* where the handler is
    query,               \* the sanitized query
    parsed_query,        \* parse_query(query)
    in_flight,           \* the adapters whose network call is awaited
    called,              \* the adapter calls made so far, in order
    responses,           \* what the network answered, per adapter
    returned,            \* what each adapter returned
    search_results,      \* the result of search_all
    api_results,         \* the result of fetch_all
    whois_results,       \* the result of perform_lookup
    web_content_results,
    categorized_results,
    background_tasks,    \* the tasks added to BackgroundTasks, in order
    response             \* what the caller receives

pvars == <<entry, raw_query, webhook_url, db, SessionLocal, db_supplied, session_state, api_keys, pc, query, parsed_query,
           in_flight, called, responses, returned, search_results, api_results,
           whois_results, web_content_results, categorized_results,
           background_tasks, response>>

\* the queries of the requests
RequestQueries ==
    { <<"a", "@", "a", ".", "a", "a">>,
      <<"a", ".", "a", "a">>,
      <<"<", "a", ".", "a", "a", ">">>,
      <<"1", ".", "1", ".", "1", ".", "1">>,
      <<"1", "1", "1", "1", "1", "1", "1">>,
      <<"a", "_", "1">>,
      <<"a", " ", "a">>,
      <<" ">>,
      <<"<", ">">>,
      <<>> }

KeyedAdapters == {"ipinfo", "hunter", "haveibeenpwned"}

\* the settings a deployment can have: which API keys are set
KeyConfigs == {{}, {"hunter"}, {"ipinfo", "haveibeenpwned"}, KeyedAdapters}

\* the adapter calls of a request, in the order the handler awaits them
Stages ==
    <<"duckduckgo", "bing", "ipinfo", "hunter", "haveibeenpwned", "whois_domain",
      "whois_ip">>

Adapters == {Stages[i] : i \in 1..Len(Stages)}

StageIndex(x) == CHOOSE i \in 1..Len(Stages) : Stages[i] = x

\* where the handler goes after adapter x
AfterStage(x) ==
    IF StageIndex(x) < Len(Stages) THEN Stages[StageIndex(x) + 1] ELSE "web_content"

NoResponse == [kind |-> "none"]

PipelineInit ==
    /\ entry \in {"search", "api_search"}
    /\ raw_query \in RequestQueries
    /\ webhook_url \in {"", "http://hook"}
    /\ SessionLocal \in {"None", "sessionmaker"}
    /\ db = ""
    /\ db_supplied = <<>>
    /\ session_state = "none"
    /\ api_keys \in KeyConfigs
    /\ pc = "depends"
    /\ query = <<>>
    /\ parsed_query = [valid |-> FALSE]
    /\ in_flight = {}
    /\ called = <<>>
    /\ responses = EmptyDict
    /\ returned = EmptyDict
    /\ search_results = EmptyDict
    /\ api_results = EmptyDict
    /\ whois_results = EmptyDict
    /\ web_content_results = EmptyDict
    /\ categorized_results = EmptyDict
    /\ background_tasks = <<>>
    /\ response = NoResponse

\* get_db(): the values the generator yields.  "if not SessionLocal: return
\* None" ends the generator before its yield, so it yields nothing
get_db(session_local) ==
    IF session_local = "None" THEN <<>> ELSE <<"session">>

\* db: Session = Depends(get_db): the framework runs the generator up to its
\* yield and hands the value to the handler; a generator that ends without
\* yielding raises RuntimeError ("generator didn't yield") and the handler is
\* not entered
ResolveDependency ==
    /\ pc = "depends"
    /\ db_supplied' = get_db(SessionLocal)
    /\ IF get_db(SessionLocal) = <<>>
       THEN /\ response' = [kind |-> "exception", error |-> "RuntimeError"]
            /\ pc' = "failed_dependency"
            /\ UNCHANGED <<db, session_state>>
       ELSE /\ db' = get_db(SessionLocal)[1]
            /\ session_state' = "open"
            /\ pc' = "received"
            /\ UNCHANGED response
    /\ UNCHANGED <<entry, raw_query, webhook_url, SessionLocal, api_keys, query,
                   parsed_query, in_flight, called, responses, returned,
                   search_results, api_results, whois_results, web_content_results,
                   categorized_results, background_tasks>>
    /\ UNCHANGED <<cvars, rvars>>

\* finally: db.close(), when the framework resumes the generator after the
\* handler has ended
CloseSession ==
    /\ pc = "done"
    /\ session_state = "open"
    /\ session_state' = "closed"
    /\ UNCHANGED <<entry, raw_query, webhook_url, db, SessionLocal, db_supplied,
                   api_keys, pc, query, parsed_query, in_flight, called, responses,
                   returned, search_results, api_results, whois_results,
                   web_content_results, categorized_results, background_tasks,
                   response>>
    /\ UNCHANGED <<cvars, rvars>>

\* search: the index page with an error; api_search: HTTPException(400)
Rejection(handler, detail) ==
    [kind |-> "rejected",
     how |-> IF handler = "search" THEN "index.html" ELSE "HTTP 400",
     detail |-> detail]

\* the handler sanitizes and parses the query, and rejects it or goes on
Receive ==
    /\ pc = "received"
    /\ LET q  == sanitize_input(raw_query)
           pq == parse_query(q)
       IN  /\ query' = q
           /\ IF q = <<>>
              THEN /\ response' = Rejection(entry, "Please provide a valid search query")
                   /\ pc' = "done"
                   /\ UNCHANGED parsed_query
              ELSE IF ~pq.valid
              THEN /\ response' = Rejection(entry, "Invalid query format")
                   /\ pc' = "done"
                   /\ parsed_query' = pq
              ELSE /\ parsed_query' = pq
                   /\ pc' = Stages[1]
                   /\ UNCHANGED response
    /\ UNCHANGED <<entry, raw_query, webhook_url, db, SessionLocal, db_supplied, session_state, api_keys, in_flight, called,
                   responses, returned, search_results, api_results, whois_results,
                   web_content_results, categorized_results, background_tasks>>
    /\ UNCHANGED <<cvars, rvars>>

\* the dispatch without the "if sources.get(...)" tests
ApplicableFieldsOnly(x) ==
    LET data == parsed_query.data
    IN  CASE x \in {"duckduckgo", "bing"} -> TRUE
          [] x \in {"ipinfo", "whois_ip"} -> "ip" \in DOMAIN data
          [] x = "hunter" -> "domain" \in DOMAIN data \/ "email" \in DOMAIN data
          [] x = "haveibeenpwned" -> "email" \in DOMAIN data \/ "username" \in DOMAIN data
          [] x = "whois_domain" -> "domain" \in DOMAIN data

\* the conditions under which search_all, fetch_all and perform_lookup call x
Applicable(x) ==
    LET sources == parsed_query.sources
        data    == parsed_query.data
    IN  CASE x = "duckduckgo" -> sources["duckduckgo"]
          [] x = "bing" -> sources["bing"]
          [] x = "ipinfo" -> sources["ipinfo"] /\ "ip" \in DOMAIN data
          [] x = "hunter" ->
                sources["hunter"] /\ ("domain" \in DOMAIN data \/ "email" \in DOMAIN data)
          [] x = "haveibeenpwned" ->
                sources["haveibeenpwned"]
                    /\ ("email" \in DOMAIN data \/ "username" \in DOMAIN data)
          [] x = "whois_domain" -> sources["whois"] /\ "domain" \in DOMAIN data
          [] x = "whois_ip" -> sources["whois"] /\ "ip" \in DOMAIN data

\* the argument x is called with
Argument(x) ==
    LET data == parsed_query.data
    IN  CASE x \in {"duckduckgo", "bing"} -> query
          [] x \in {"ipinfo", "whois_ip"} -> data["ip"]
          [] x = "hunter" ->
                IF "domain" \in DOMAIN data THEN data["domain"] ELSE data["email"]
          [] x = "haveibeenpwned" ->
                IF "email" \in DOMAIN data THEN data["email"] ELSE data["username"]
          [] x = "whois_domain" -> data["domain"]

\* what the network can answer to x
Responses(x) ==
    CASE x \in {"duckduckgo", "bing"} -> SearchResponses
      [] x = "ipinfo" -> IpinfoResponses
      [] x = "hunter" -> HunterResponses
      [] x = "haveibeenpwned" -> HibpResponses
      [] x = "whois_domain" -> WhoisResponses
      [] x = "whois_ip" -> IpWhoisResponses

\* what adapter x returns on the answer resp
AdapterResult(x, has_key, resp) ==
    CASE x = "duckduckgo" -> search_duckduckgo(resp)
      [] x = "bing" -> search_bing(resp)
      [] x = "ipinfo" -> fetch_ipinfo(has_key, resp)
      [] x = "hunter" -> fetch_hunter_email_info(has_key, resp)
      [] x = "haveibeenpwned" -> fetch_haveibeenpwned(has_key, resp)
      [] x = "whois_domain" -> _lookup_domain(Argument(x), resp)
      [] x = "whois_ip" -> _lookup_ip(Argument(x), resp)

\* the caller of x keeps or drops what x returned
Aggregate(x, value) ==
    /\ search_results' =
           IF x \in {"duckduckgo", "bing"} THEN StoreSearch(search_results, x, value)
           ELSE search_results
    /\ api_results' =
           IF x \in {"ipinfo", "hunter"} THEN StoreApi(api_results, x, value)
           ELSE IF x = "haveibeenpwned" THEN StoreHibp(api_results, value)
           ELSE api_results
    /\ whois_results' =
           IF x = "whois_domain" THEN StoreWhois(whois_results, "domain", value)
           ELSE IF x = "whois_ip" THEN StoreWhois(whois_results, "ip", value)
           ELSE whois_results
    /\ returned' = Put(returned, x, value)

CalledSet == {called[i].adapter : i \in 1..Len(called)}

\* the awaits of the handler and of the three aggregators are sequential: the
\* call of x is reached when every earlier call has returned
CanStartGathered(x) == pc \in Adapters /\ x \notin CalledSet

CanStart(x) == pc = x

\* the source of x is disabled, or the field it needs is absent
SkipAdapter(x) ==
    /\ pc = x
    /\ ~Applicable(x)
    /\ pc' = AfterStage(x)
    /\ UNCHANGED <<entry, raw_query, webhook_url, db, SessionLocal, db_supplied, session_state, api_keys, query, parsed_query,
                   in_flight, called, responses, returned, search_results,
                   api_results, whois_results, web_content_results,
                   categorized_results, background_tasks, response>>
    /\ UNCHANGED <<cvars, rvars>>

\* x is called and its request goes out
CallAdapter(x) ==
    /\ CanStart(x)
    /\ Applicable(x)
    /\ x \notin in_flight
    /\ x \in KeyedAdapters => x \in api_keys
    /\ called' = Append(called, [adapter |-> x, arg |-> Argument(x)])
    /\ in_flight' = in_flight \cup {x}
    /\ UNCHANGED <<entry, raw_query, webhook_url, db, SessionLocal, db_supplied, session_state, api_keys, pc, query,
                   parsed_query, responses, returned, search_results, api_results,
                   whois_results, web_content_results, categorized_results,
                   background_tasks, response>>
    /\ UNCHANGED <<cvars, rvars>>

\* x is called without its API key: it returns its error without any request
CallUnconfigured(x) ==
    /\ CanStart(x)
    /\ Applicable(x)
    /\ x \in KeyedAdapters
    /\ x \notin api_keys
    /\ called' = Append(called, [adapter |-> x, arg |-> Argument(x)])
    /\ responses' = Put(responses, x, [kind |-> "not_configured"])
    /\ Aggregate(x, AdapterResult(x, FALSE, [kind |-> "not_configured"]))
    /\ pc' = AfterStage(x)
    /\ UNCHANGED <<entry, raw_query, webhook_url, db, SessionLocal, db_supplied, session_state, api_keys, query, parsed_query,
                   in_flight, web_content_results, categorized_results,
                   background_tasks, response>>
    /\ UNCHANGED <<cvars, rvars>>

\* the answer to x arrives (or its request fails) and x returns
AdapterReturns(x) ==
    /\ x \in in_flight
    /\ \E resp \in Responses(x) :
          /\ responses' = Put(responses, x, resp)
          /\ Aggregate(x, AdapterResult(x, TRUE, resp))
    /\ in_flight' = in_flight \ {x}
    /\ pc' = AfterStage(x)
    /\ UNCHANGED <<entry, raw_query, webhook_url, db, SessionLocal, db_supplied, session_state, api_keys, query, parsed_query,
                   called, web_content_results, categorized_results,
                   background_tasks, response>>
    /\ UNCHANGED <<cvars, rvars>>

\* urls = [result["url"] for result in search_results.get("duckduckgo", [])[:3]]
TopResultUrls ==
    LET top == Take(Get(search_results, "duckduckgo", <<>>), TopUrls)
    IN  [i \in 1..Len(top) |-> top[i].url]

WantsWebContent ==
    /\ parsed_query.type = "domain"
    /\ Truthy(Get(search_results, "duckduckgo", <<>>))
    /\ TopResultUrls # <<>>

\* web_scraper.process_urls(urls, max_urls=3): WebContentScraper has no such
\* method, the attribute lookup raises AttributeError and the handler ends
SecondaryFetch ==
    /\ pc = "web_content"
    /\ WantsWebContent
    /\ "process_urls" \notin WebContentScraperMethods
    /\ response' = [kind |-> "exception", error |-> "AttributeError"]
    /\ pc' = "done"
    /\ UNCHANGED <<entry, raw_query, webhook_url, db, SessionLocal, db_supplied, session_state, api_keys, query, parsed_query,
                   in_flight, called, responses, returned, search_results,
                   api_results, whois_results, web_content_results,
                   categorized_results, background_tasks>>
    /\ UNCHANGED <<cvars, rvars>>

\* the keys under which the handler hands the results to the parser
AllResults ==
    [search_results |-> search_results, api_results |-> api_results,
     whois_results |-> whois_results, web_content_results |-> web_content_results]

\* the rest of the handler: parse, summarize, schedule the tasks, answer
Respond ==
    /\ pc = "web_content"
    /\ ~WantsWebContent
    /\ LET categorized == parse_and_categorize(AllResults)
           summary     == generate_summary(categorized)
           results     == Put(categorized, "summary", summary)
           webhook     == IF webhook_url # ""
                          THEN << [task |-> "send_to_webhook",
                                   payload |-> format_for_n8n(results, query),
                                   url |-> webhook_url] >>
                          ELSE <<>>
           logging     == IF db # ""
                          THEN << [task |-> "log_query", query |-> query,
                                   query_type |-> <<"InputType", parsed_query.type>>,
                                   results |-> results] >>
                          ELSE <<>>
       IN  /\ categorized_results' = results
           /\ background_tasks' = webhook \o logging
           \* search renders results.html, api_search returns the JSON body
           /\ response' =
                  IF entry = "search"
                  THEN [kind |-> "results", query |-> query,
                        query_type |-> parsed_query.type, results |-> results,
                        summary |-> summary]
                  ELSE [kind |-> "results", query |-> query,
                        query_type |-> parsed_query.type, results |-> results]
    /\ pc' = "done"
    /\ UNCHANGED <<entry, raw_query, webhook_url, db, SessionLocal, db_supplied, session_state, api_keys, query, parsed_query,
                   in_flight, called, responses, returned, search_results,
                   api_results, whois_results, web_content_results>>
    /\ UNCHANGED <<cvars, rvars>>

PipelineNext ==
    \/ ResolveDependency
    \/ Receive
    \/ \E x \in Adapters : SkipAdapter(x)
    \/ \E x \in Adapters : CallAdapter(x)
    \/ \E x \in Adapters : CallUnconfigured(x)
    \/ \E x \in Adapters : AdapterReturns(x)
    \/ SecondaryFetch
    \/ Respond
    \/ CloseSession

(***************************************************************************)
(* The classifier applied to bounded inputs.                               *)
(***************************************************************************)
StringsUpTo(n) == UNION {[1..k -> Alphabet] : k \in 0..n}

\* representative queries of each rule, too long for the exhaustive part
Cores ==
    { <<"a", "@", "a", ".", "a", "a">>,
      <<"1", ".", "1", ".", "1", ".", "1">>,
      <<"1", "1", "1", "1", "1", "1", "1">>,
      <<"+", "1", "1", "1", "1", "1", "1", "1">>,
      <<"(", "1", "1", ")", " ", "1", "-", "1">>,
      <<"1", ".", "1", ".", "1", ".", "2", "5", "6">>,
      <<"a", "-", "a", ".", "a", "a">>,
      <<"1", ":", ":", "1">>,
      <<":", ":", "1", ".", "1", ".", "1", ".", "1">>,
      <<"a", "_", "1", ".", "a", "1">> }

\* a core, the core padded with whitespace, and every one-character change of it
Variants(core) ==
    {core, <<" ">> \o core \o <<" ", "\t">>}
        \cup {[core EXCEPT ![i] = c] : i \in 1..Len(core), c \in Alphabet \cup {"2", "("}}

ClassifierInputs == StringsUpTo(MaxLen) \cup UNION {Variants(core) : core \in Cores}

\* no request is being handled
PipelineIdle ==
    /\ entry = "search"
    /\ raw_query = <<>>
    /\ webhook_url = ""
    /\ db = ""
    /\ SessionLocal = "None"
    /\ db_supplied = <<>>
    /\ session_state = "none"
    /\ api_keys = {}
    /\ pc = "idle"
    /\ query = <<>>
    /\ parsed_query = [valid |-> FALSE]
    /\ in_flight = {}
    /\ called = <<>>
    /\ responses = EmptyDict
    /\ returned = EmptyDict
    /\ search_results = EmptyDict
    /\ api_results = EmptyDict
    /\ whois_results = EmptyDict
    /\ web_content_results = EmptyDict
    /\ categorized_results = EmptyDict
    /\ background_tasks = <<>>
    /\ response = NoResponse

\* the parser is not being exercised
ParserIdle ==
    /\ r_results = EmptyDict
    /\ r_step = "idle"
    /\ r_collected = EmptyDict
    /\ r_categorized = EmptyDict
    /\ r_summary = <<>>
    /\ r_payload = EmptyDict

NoResult == [valid |-> FALSE, type |-> "none", data |-> EmptyDict]

\* the classifier is not being exercised
ClassifierIdle ==
    /\ c_input = <<>>
    /\ c_step = "idle"
    /\ c_result = NoResult

ClassifyInit ==
    /\ c_input \in ClassifierInputs
    /\ c_step = "input"
    /\ c_result = NoResult
    /\ PipelineIdle
    /\ ParserIdle

\* a caller applies validate_and_identify to the input
CallValidateAndIdentify ==
    /\ c_step = "input"
    /\ c_result' = validate_and_identify(c_input)
    /\ c_step' = "identified"
    /\ UNCHANGED c_input
    /\ UNCHANGED <<pvars, rvars>>

\* a caller applies parse_query to the input
CallParseQuery ==
    /\ c_step = "input"
    /\ c_result' = parse_query(c_input)
    /\ c_step' = "parsed"
    /\ UNCHANGED c_input
    /\ UNCHANGED <<pvars, rvars>>

ClassifyNext == CallValidateAndIdentify \/ CallParseQuery

(***************************************************************************)
(* ResultParser and WebhookExporter on their own: a caller hands            *)
(* parse_and_categorize a dict of adapter outputs under the keys it reads,  *)
(* then summarizes the result and formats it for the webhook.              *)
(***************************************************************************)
\* a snippet as long as a signature
LongText == [i \in 1..SignatureLen |-> "x"]

\* the result elements of the search pages handed to the parser
ParseItems ==
    PageItems \cup
    { [title |-> <<"Contact", "Acme">>, url |-> "http://b.example",
       snippet |-> <<"About", "Acme">>],
      [title |-> <<"Contact", "Acme">>, url |-> "http://b.example", snippet |-> LongText],
      [title |-> <<"Contact">>, url |-> "http://a.example", snippet |-> LongText],
      [title |-> <<"Advertisement">>, url |-> "http://c.example",
       snippet |-> <<"Contact", "Acme">>] }

\* DuckDuckGo delivers up to MaxItems results, Bing none or one
SearchDicts ==
    {[duckduckgo |-> ddg, bing |-> bing] :
        ddg \in SeqsUpTo(ParseItems, MaxItems), bing \in SeqsUpTo(ParseItems, 1)}

\* what perform_lookup can return, and a record with registrant fields
WhoisDicts ==
    {StoreWhois(EmptyDict, "domain", _lookup_domain("a.aa", r)) : r \in WhoisResponses}
        \cup {StoreWhois(EmptyDict, "ip", _lookup_ip("1.1.1.1", r)) : r \in IpWhoisResponses}
        \cup {[domain |-> [domain_name |-> "A.AA", registrant_name |-> "Jane",
                           registrant_email |-> "jane@a.aa"]]}

HunterDicts ==
    { [domain |-> "a.aa", emails |-> <<[value |-> "x@a.aa"]>>],
      [email |-> "a@a.aa", status |-> "valid"],
      [domain |-> "a.aa", email |-> "a@a.aa",
       emails |-> <<[value |-> "x@a.aa", first_name |-> "Jane", last_name |-> "Roe",
                     position |-> "CEO"]>>] }

\* what fetch_all can return
ApiDicts ==
    {LET withIp     == IF ip THEN [ipinfo |-> [ip |-> "1.1.1.1", city |-> "Sydney",
                                               country |-> "AU"]]
                       ELSE EmptyDict
         withHunter == IF h = EmptyDict THEN withIp ELSE Put(withIp, "hunter", h)
     IN  StoreHibp(withHunter, bs) :
        ip \in BOOLEAN, h \in HunterDicts \cup {EmptyDict},
        bs \in SeqsUpTo(Breaches, MaxItems)}

\* a search with three contact results that differ in their first characters,
\* the first of which Bing delivers again
FullSearch ==
    [duckduckgo |->
         << [title |-> <<"Contact", "Acme">>, url |-> "http://b.example",
             snippet |-> <<"LinkedIn", "profile">>],
            [title |-> <<"Contact", "Acme">>, url |-> "http://b.example",
             snippet |-> <<"About", "Acme">>] >>,
     bing |->
         << [title |-> <<"Contact", "Acme">>, url |-> "http://b.example",
             snippet |-> LongText],
            [title |-> <<"Contact", "Acme">>, url |-> "http://b.example",
             snippet |-> <<"LinkedIn", "profile">>] >>]

ParserInputs ==
    {[search_engines |-> se] : se \in SearchDicts}
        \cup {[whois |-> w, api_sources |-> a] : w \in WhoisDicts, a \in ApiDicts}
        \cup {[api_sources |-> a] : a \in ApiDicts}
        \cup {[whois |-> w, search_engines |-> FullSearch,
                api_sources |-> [hunter |-> h]] : w \in WhoisDicts, h \in HunterDicts}

ParseInit ==
    /\ r_results \in ParserInputs
    /\ r_step = "input"
    /\ r_collected = EmptyDict
    /\ r_categorized = EmptyDict
    /\ r_summary = <<>>
    /\ r_payload = EmptyDict
    /\ PipelineIdle
    /\ ClassifierIdle

\* categorized_results = result_parser.parse_and_categorize(all_results)
CallParseAndCategorize ==
    /\ r_step = "input"
    /\ r_collected' = Collected(r_results)
    /\ r_categorized' = parse_and_categorize(r_results)
    /\ r_step' = "categorized"
    /\ UNCHANGED <<r_results, r_summary, r_payload>>
    /\ UNCHANGED <<cvars, pvars>>

\* summary = generate_summary(categorized_results), stored under "summary"
CallGenerateSummary ==
    /\ r_step = "categorized"
    /\ r_summary' = generate_summary(r_categorized)
    /\ r_categorized' = Put(r_categorized, "summary", r_summary')
    /\ r_step' = "summarized"
    /\ UNCHANGED <<r_results, r_collected, r_payload>>
    /\ UNCHANGED <<cvars, pvars>>

\* n8n_payload = await webhook_exporter.format_for_n8n(categorized_results, query)
CallFormatForN8n ==
    /\ r_step = "summarized"
    /\ r_payload' = format_for_n8n(r_categorized, <<"a", ".", "a", "a">>)
    /\ r_step' = "formatted"
    /\ UNCHANGED <<r_results, r_collected, r_categorized, r_summary>>
    /\ UNCHANGED <<cvars, pvars>>

ParseNext == CallParseAndCategorize \/ CallGenerateSummary \/ CallFormatForN8n

(***************************************************************************)
(* The handlers of fastapi_server.py: search and api_search.  Each is one  *)
(* step here: the three aggregators are awaited one after the other and    *)
(* nothing else runs in between.                                           *)
(***************************************************************************)
FastapiEntries == {"fastapi_search", "fastapi_api_search"}

\* an aggregator the handler does not call
NotGathered == [gathered |-> FALSE, calls |-> <<>>, results |-> EmptyDict]

Call(x, arg) == << [adapter |-> x, arg |-> arg] >>

\* WhoisLookup.perform_lookup(query_data, sources) on the answers wd and wi
perform_lookup(query_data, sources, wd, wi) ==
    IF ~Get(sources, "whois", FALSE) THEN [NotGathered EXCEPT !.gathered = TRUE]
    ELSE LET d  == "domain" \in DOMAIN query_data
             i  == "ip" \in DOMAIN query_data
             r1 == IF d THEN StoreWhois(EmptyDict, "domain",
                                        _lookup_domain(query_data["domain"], wd))
                   ELSE EmptyDict
             r2 == IF i THEN StoreWhois(r1, "ip", _lookup_ip(query_data["ip"], wi))
                   ELSE r1
         IN  [gathered |-> TRUE,
              calls |-> (IF d THEN Call("whois_domain", query_data["domain"]) ELSE <<>>)
                          \o (IF i THEN Call("whois_ip", query_data["ip"]) ELSE <<>>),
              results |-> r2]

\* SearchEngineScraper.search_all(query, sources) on the answers d and b
search_all(q, sources, d, b) ==
    LET ddg  == Get(sources, "duckduckgo", FALSE)
        bing == Get(sources, "bing", FALSE)
        r1   == IF ddg THEN StoreSearch(EmptyDict, "duckduckgo", search_duckduckgo(d))
                ELSE EmptyDict
        r2   == IF bing THEN StoreSearch(r1, "bing", search_bing(b)) ELSE r1
    IN  [gathered |-> TRUE,
         calls |-> (IF ddg THEN Call("duckduckgo", q) ELSE <<>>)
                     \o (IF bing THEN Call("bing", q) ELSE <<>>),
         results |-> r2]

\* APISources.fetch_all(query_data, sources) on the answers ri, rh and rp
fetch_all(query_data, sources, keys, ri, rh, rp) ==
    LET ip     == Get(sources, "ipinfo", FALSE) /\ "ip" \in DOMAIN query_data
        hunter == Get(sources, "hunter", FALSE)
                      /\ ("domain" \in DOMAIN query_data \/ "email" \in DOMAIN query_data)
        hibp   == Get(sources, "haveibeenpwned", FALSE)
                      /\ ("email" \in DOMAIN query_data \/ "username" \in DOMAIN query_data)
        harg   == IF "domain" \in DOMAIN query_data THEN query_data["domain"]
                  ELSE query_data["email"]
        parg   == IF "email" \in DOMAIN query_data THEN query_data["email"]
                  ELSE query_data["username"]
        r1     == IF ip THEN StoreApi(EmptyDict, "ipinfo", fetch_ipinfo("ipinfo" \in keys, ri))
                  ELSE EmptyDict
        r2     == IF hunter
                  THEN StoreApi(r1, "hunter", fetch_hunter_email_info("hunter" \in keys, rh))
                  ELSE r1
        r3     == IF hibp
                  THEN StoreHibp(r2, fetch_haveibeenpwned("haveibeenpwned" \in keys, rp))
                  ELSE r2
    IN  [gathered |-> TRUE,
         calls |-> (IF ip THEN Call("ipinfo", query_data["ip"]) ELSE <<>>)
                     \o (IF hunter THEN Call("hunter", harg) ELSE <<>>)
                     \o (IF hibp THEN Call("haveibeenpwned", parg) ELSE <<>>),
         results |-> r3]

\* results = {}; results["whois"] = ...; results["search_engines"] = ...
FastapiResults(w, s, a) ==
    LET r1 == IF w.gathered THEN Put(EmptyDict, "whois", w.results) ELSE EmptyDict
        r2 == IF s.gathered THEN Put(r1, "search_engines", s.results) ELSE r1
    IN  IF a.gathered THEN Put(r2, "api_sources", a.results) ELSE r2

FastapiInit ==
    /\ entry \in FastapiEntries
    /\ raw_query \in RequestQueries
    /\ webhook_url \in {"", "http://hook"}
    /\ SessionLocal \in {"None", "sessionmaker"}
    /\ db = ""
    /\ db_supplied = <<>>
    /\ session_state = "none"
    /\ api_keys \in KeyConfigs
    /\ pc = "depends"
    /\ query = <<>>
    /\ parsed_query = [valid |-> FALSE]
    /\ in_flight = {}
    /\ called = <<>>
    /\ responses = EmptyDict
    /\ returned = EmptyDict
    /\ search_results = EmptyDict
    /\ api_results = EmptyDict
    /\ whois_results = EmptyDict
    /\ web_content_results = EmptyDict
    /\ categorized_results = EmptyDict
    /\ background_tasks = <<>>
    /\ response = NoResponse
    /\ ClassifierIdle
    /\ ParserIdle

\* if not is_valid: the index page with an error, or the error as JSON
FastapiReject ==
    /\ pc = "received"
    /\ ~validate_and_identify(raw_query).valid
    /\ response' = [kind |-> "rejected",
                    how |-> IF entry = "fastapi_search" THEN "index.html" ELSE "JSON",
                    detail |-> "Invalid input"]
    /\ pc' = "done"
    /\ UNCHANGED <<entry, raw_query, webhook_url, db, SessionLocal, db_supplied, session_state, api_keys, query, parsed_query,
                   in_flight, called, responses, returned, search_results,
                   api_results, whois_results, web_content_results,
                   categorized_results, background_tasks>>
    /\ UNCHANGED <<cvars, rvars>>

\* the handler on a valid query: the sources of its type, the aggregators
\* behind "if sources.get(...)", the parser, the summary, the tasks, the answer
FastapiSearch ==
    /\ pc = "received"
    /\ LET v == validate_and_identify(raw_query)
       IN  /\ v.valid
           /\ LET sources == _get_sources_for_type(v.type)
              IN  \E w \in (IF Get(sources, "whois", FALSE)
                            THEN {perform_lookup(v.data, sources, wd, wi) :
                                     wd \in WhoisResponses, wi \in IpWhoisResponses}
                            ELSE {NotGathered}) :
                  \E s \in (IF Get(sources, "search_engines", FALSE)
                            THEN {search_all(Get(v.data, "search_query", raw_query),
                                             sources, d, b) :
                                     d \in SearchResponses, b \in SearchResponses}
                            ELSE {NotGathered}) :
                  \E a \in (IF Get(sources, "api_sources", FALSE)
                            THEN {fetch_all(v.data, sources, api_keys, ri, rh, rp) :
                                     ri \in IpinfoResponses, rh \in HunterResponses,
                                     rp \in HibpResponses}
                            ELSE {NotGathered}) :
                      LET categorized == parse_and_categorize(FastapiResults(w, s, a))
                          summary     == generate_summary(categorized)
                          logging     == IF db # ""
                                         THEN << [task |-> "log_query", query |-> raw_query,
                                                  query_type |-> v.type,
                                                  results |-> categorized] >>
                                         ELSE <<>>
                          webhook     == IF webhook_url # ""
                                         THEN << [task |-> "send_to_webhook",
                                                  results |-> categorized,
                                                  url |-> webhook_url] >>
                                         ELSE <<>>
                      IN  /\ parsed_query' = [valid |-> TRUE, type |-> v.type,
                                              data |-> v.data, sources |-> sources]
                          /\ called' = w.calls \o s.calls \o a.calls
                          /\ whois_results' = w.results
                          /\ search_results' = s.results
                          /\ api_results' = a.results
                          /\ categorized_results' = categorized
                          /\ background_tasks' = logging \o webhook
                          /\ response' = [kind |-> "results", query |-> raw_query,
                                          query_type |-> v.type, results |-> categorized,
                                          summary |-> summary]
    /\ query' = raw_query
    /\ pc' = "done"
    /\ UNCHANGED <<entry, raw_query, webhook_url, db, SessionLocal, db_supplied, session_state, api_keys, in_flight, responses,
                   returned, web_content_results>>
    /\ UNCHANGED <<cvars, rvars>>

FastapiNext == ResolveDependency \/ FastapiReject \/ FastapiSearch \/ CloseSession

(***************************************************************************)
(* The specifications.                                                     *)
(***************************************************************************)
vars == <<c_input, c_step, c_result, r_results, r_step, r_collected,
          r_categorized, r_summary, r_payload, entry, raw_query, webhook_url, db, SessionLocal, db_supplied, session_state, api_keys, pc,
          query, parsed_query, in_flight, called, responses, returned,
          search_results, api_results, whois_results, web_content_results,
          categorized_results, background_tasks, response>>

\* the classifier on every bounded input
SpecClassify == ClassifyInit /\ [][ClassifyNext]_vars

\* the result parser, the summary and the webhook payload on bounded inputs
SpecParse == ParseInit /\ [][ParseNext]_vars

\* the handlers of fastapi_server.py on bounded requests
SpecFastapi == FastapiInit /\ [][FastapiNext]_vars

Init == PipelineInit /\ ClassifierIdle /\ ParserIdle

Next == PipelineNext

\* one request through routes.search or routes.api_search
Spec == Init /\ [][Next]_vars

(***************************************************************************)
(* Properties of the classifier, checked under SpecClassify.               *)
(***************************************************************************)
\* the precedence order the specification gives the rules
RuleOrder == <<"email", "ip", "domain", "phone", "username", "name">>

Matches(rule, q) ==
    CASE rule = "email" -> IsEmail(q)
      [] rule = "ip" -> IsIpv4(q) \/ IsIpv6(q)
      [] rule = "domain" -> IsDomain(q)
      [] rule = "phone" -> IsPhone(q)
      [] rule = "username" -> IsUsername(q)
      [] rule = "name" -> q # <<>>

MatchingRules(q) == {i \in 1..Len(RuleOrder) : Matches(RuleOrder[i], q)}

\* C1: validate_and_identify returns the type of the first rule, in the order
\* email, IP address, domain, phone, username, name, that the trimmed input
\* matches: an input matching several rules gets the earliest of them.
C1_FirstMatchingRuleDecides ==
    c_step = "identified" =>
        LET matching == MatchingRules(Strip(c_input))
        IN  matching # {} =>
                /\ c_result.valid
                /\ \A i \in matching :
                      (\A j \in matching : i <= j) => c_result.type = RuleOrder[i]

\* an IP literal that the username rule matches too is classified ip
C1_Witness ==
    /\ c_step = "identified"
    /\ IsIpv4(Strip(c_input))
    /\ IsUsername(Strip(c_input))
    /\ c_result.type = "ip"

Blank(s) == AllIn(s, Whitespace)

\* C2: an empty or whitespace-only input is invalid, of type unknown, with no
\* field, from validate_and_identify and from parse_query alike.
C2_BlankInputIsInvalid ==
    (Blank(c_input) /\ c_step \in {"identified", "parsed"}) =>
        /\ ~c_result.valid
        /\ c_result.type = "unknown"
        /\ DOMAIN c_result.data = {}

\* parse_query has rejected a non-empty input made of whitespace
C2_Witness ==
    /\ c_step = "parsed"
    /\ c_input # <<>>
    /\ Blank(c_input)
    /\ ~c_result.valid

\* the trimmed input splits at position i into a local part and a domain
SplitsAt(q, i, local, domain) ==
    /\ q[i] = "@"
    /\ local = SubSeq(q, 1, i - 1)
    /\ domain = SubSeq(q, i + 1, Len(q))

\* C3 as stated: an input classified email is valid and its fields are exactly
\* email (the trimmed input) and domain (the part after "@").
C3_EmailFieldsAreEmailAndDomain ==
    (c_step = "identified" /\ c_result.type = "email") =>
        /\ c_result.valid
        /\ DOMAIN c_result.data = {"email", "domain"}
        /\ c_result.data["email"] = Strip(c_input)
        /\ \E i \in 1..Len(Strip(c_input)) :
              Strip(c_input)[i] = "@"
                  /\ c_result.data["domain"]
                         = SubSeq(Strip(c_input), i + 1, Len(Strip(c_input)))

\* C3 amended: an input classified email is valid and its fields are exactly
\* email (the trimmed input), username (the part before "@") and domain (the
\* part after "@").
C3_EmailFieldsAreEmailUsernameDomain ==
    (c_step = "identified" /\ c_result.type = "email") =>
        /\ c_result.valid
        /\ DOMAIN c_result.data = {"email", "username", "domain"}
        /\ c_result.data["email"] = Strip(c_input)
        /\ \E i \in 1..Len(Strip(c_input)) :
              SplitsAt(Strip(c_input), i, c_result.data["username"],
                       c_result.data["domain"])

\* an email padded with whitespace has been classified
C3_Witness ==
    /\ c_step = "identified"
    /\ c_result.type = "email"
    /\ c_input # Strip(c_input)

EnabledSources(sources) == {src \in DOMAIN sources : sources[src]}

\* C4 as stated: email enables exactly duckduckgo, bing, hunter and
\* haveibeenpwned; domain exactly duckduckgo, bing, whois and hunter; ip exactly
\* whois and ipinfo.
C4_SourceTableWithBothEngines ==
    (c_step = "parsed" /\ c_result.valid) =>
        /\ c_result.type = "email" =>
              EnabledSources(c_result.sources)
                  = {"duckduckgo", "bing", "hunter", "haveibeenpwned"}
        /\ c_result.type = "domain" =>
              EnabledSources(c_result.sources) = {"duckduckgo", "bing", "whois", "hunter"}
        /\ c_result.type = "ip" =>
              EnabledSources(c_result.sources) = {"whois", "ipinfo"}

\* C4 amended: the map has the six sources as keys and depends on the type
\* only; email enables exactly duckduckgo, hunter and haveibeenpwned; domain
\* exactly duckduckgo, whois and hunter; ip exactly whois and ipinfo; bing is
\* disabled for all three.
C4_SourceTable ==
    (c_step = "parsed" /\ c_result.valid) =>
        /\ DOMAIN c_result.sources = SourceNames
        /\ c_result.type = "email" =>
              EnabledSources(c_result.sources) = {"duckduckgo", "hunter", "haveibeenpwned"}
        /\ c_result.type = "domain" =>
              EnabledSources(c_result.sources) = {"duckduckgo", "whois", "hunter"}
        /\ c_result.type = "ip" =>
              EnabledSources(c_result.sources) = {"whois", "ipinfo"}

\* parse_query has returned the sources of an email
C4_Witness ==
    /\ c_step = "parsed"
    /\ c_result.valid
    /\ c_result.type = "email"
    /\ c_result.sources["duckduckgo"]

ClassifiedPhone == c_step = "identified" /\ c_result.type = "phone"

\* s without its separators: only digits and "+" are left
Separators == PhoneChar \ Digit

\* C25 as stated: the phone field of an input classified phone is its
\* normalized form, only digits and an optional "+", and that normalized
\* form has between 7 and 20 characters.
C25_NormalizedPhoneHasSevenToTwenty ==
    ClassifiedPhone =>
        /\ c_result.data["phone"] = RemoveChars(Strip(c_input), Separators)
        /\ AllIn(c_result.data["phone"], Digit \cup {"+"})
        /\ Len(c_result.data["phone"]) >= PhoneMinLen
        /\ Len(c_result.data["phone"]) <= PhoneMaxLen

\* C25 amended: the phone field of an input classified phone is its
\* normalized form, only digits and an optional leading "+"; it is the
\* trimmed input, after its optional "+", that has between 7 and 20
\* characters, so the normalized form has at most 20 characters after the "+"
\* and may have fewer than 7.
C25_TrimmedPhoneHasSevenToTwenty ==
    ClassifiedPhone =>
        LET trimmed == Strip(c_input)
            phone   == c_result.data["phone"]
            body    == IF trimmed[1] = "+" THEN Tail(trimmed) ELSE trimmed
        IN  /\ DOMAIN c_result.data = {"phone"}
            /\ phone = RemoveChars(trimmed, Separators)
            /\ AllIn(phone, Digit \cup {"+"})
            /\ \A i \in 2..Len(phone) : phone[i] # "+"
            /\ Len(body) >= PhoneMinLen
            /\ Len(body) <= PhoneMaxLen
            /\ Len(phone) <= Len(trimmed)

\* an input with separators is classified phone and its normalized form is
\* shorter than seven characters
C25_Witness ==
    /\ ClassifiedPhone
    /\ Len(c_result.data["phone"]) < PhoneMinLen
    /\ Len(c_result.data["phone"]) > 0

\* an input with a leading "+" is classified phone
C25_PlusWitness ==
    /\ ClassifiedPhone
    /\ c_result.data["phone"][1] = "+"

(***************************************************************************)
(* Properties of the request pipeline, checked under Spec.                 *)
(***************************************************************************)
\* nothing is left of the query once the deleted characters and the
\* surrounding whitespace are gone, or the classifier rejects what is left
InvalidRequest ==
    \/ AllIn(raw_query, Dangerous \cup Whitespace)
    \/ ~validate_and_identify(Strip(RemoveChars(raw_query, Dangerous))).valid

\* C5: a request whose sanitized query is empty or invalid is rejected before
\* any adapter is invoked: no search, API, WHOIS or content fetch happens and no
\* webhook or database task is scheduled.
C5_RejectedBeforeAnyAdapter ==
    InvalidRequest =>
        /\ called = <<>>
        /\ in_flight = {}
        /\ DOMAIN responses = {}
        /\ DOMAIN returned = {}
        /\ background_tasks = <<>>
        /\ DOMAIN categorized_results = {}
        /\ pc \in {"depends", "failed_dependency", "received", "done"}
        /\ pc = "done" => response.kind = "rejected"

\* a query of deleted characters only has been rejected
C5_Witness ==
    /\ pc = "done"
    /\ raw_query # <<>>
    /\ InvalidRequest
    /\ response.kind = "rejected"
    /\ called = <<>>

\* C6: for every valid query and every combination of adapter outcomes the
\* handler ends by returning a categorized result and a summary; no adapter
\* outcome makes the request fail.
C6_ValidRequestReturnsResults ==
    (pc = "done" /\ ~InvalidRequest) =>
        /\ response.kind = "results"
        /\ "summary" \in DOMAIN response.results

\* a valid domain query whose DuckDuckGo search found a page has failed
C6_RequestFailed ==
    /\ pc = "done"
    /\ ~InvalidRequest
    /\ response.kind = "exception"
    /\ Truthy(Get(search_results, "duckduckgo", <<>>))

\* x returned an error value (a search adapter returns [] on an error)
Failed(x) ==
    /\ x \in DOMAIN returned
    /\ CASE x \in {"duckduckgo", "bing"} -> responses[x].kind = "error"
         [] x \in {"ipinfo", "hunter"} -> IsErrorOnly(returned[x])
         [] x = "haveibeenpwned" ->
               Len(returned[x]) = 1 /\ "error" \in DOMAIN returned[x][1]
         [] x \in {"whois_domain", "whois_ip"} -> "error" \in DOMAIN returned[x]

\* the dict x's result is aggregated into, and x's key in it
AggregateOf(x) ==
    CASE x \in {"duckduckgo", "bing"} -> search_results
      [] x \in {"ipinfo", "hunter", "haveibeenpwned"} -> api_results
      [] x \in {"whois_domain", "whois_ip"} -> whois_results

KeyOf(x) ==
    CASE x = "whois_domain" -> "domain" [] x = "whois_ip" -> "ip" [] OTHER -> x

HasEntry(x) == KeyOf(x) \in DOMAIN AggregateOf(x)

\* the aggregated result of x equals what x returned (no entry: nothing)
KeepsResult(x) ==
    IF HasEntry(x) THEN AggregateOf(x)[KeyOf(x)] = returned[x]
    ELSE ~Truthy(returned[x])

AllAdaptersReturned == pc \in {"web_content", "done"} /\ called # <<>>

ExactlyOneFailed == Cardinality({x \in CalledSet : Failed(x)}) = 1

\* C7 as stated: when exactly one of the dispatched adapters fails, the
\* aggregated results hold the unchanged results of the others and one
\* error entry under the failed adapter's key.
C7_FailureIsRecordedUnderItsKey ==
    (AllAdaptersReturned /\ ExactlyOneFailed) =>
        \A x \in CalledSet :
            IF Failed(x)
            THEN HasEntry(x) /\ "error" \in DOMAIN AggregateOf(x)[KeyOf(x)]
            ELSE KeepsResult(x)

\* C7 amended: when exactly one of the dispatched adapters fails, the
\* aggregated results hold the unchanged results of the others; search_all and
\* fetch_all hold no entry at all for a failed adapter, and perform_lookup holds
\* the error record of a failed lookup under "domain" or "ip".
C7_FailureIsDroppedOrRecorded ==
    (AllAdaptersReturned /\ ExactlyOneFailed) =>
        \A x \in CalledSet :
            IF Failed(x)
            THEN IF x \in {"whois_domain", "whois_ip"}
                 THEN /\ HasEntry(x)
                      /\ AggregateOf(x)[KeyOf(x)] = returned[x]
                      /\ "error" \in DOMAIN AggregateOf(x)[KeyOf(x)]
                 ELSE ~HasEntry(x)
            ELSE KeepsResult(x)

\* one adapter failed and another one's data is in the aggregated results
C7_Witness ==
    /\ AllAdaptersReturned
    /\ ExactlyOneFailed
    /\ \E x \in CalledSet : Failed(x) /\ x \in KeyedAdapters
    /\ \E y \in CalledSet : ~Failed(y) /\ HasEntry(y)

\* C8 as stated: the start of one adapter's call does not wait for the
\* completion of another's: while a call is in flight, every enabled adapter
\* not yet called can be called.
C8_StartDoesNotWait ==
    \A x \in in_flight : \A y \in Adapters \ CalledSet :
        Applicable(y) => (ENABLED CallAdapter(y) \/ ENABLED CallUnconfigured(y))

\* C8 amended: the adapters of a request are called one after the other: at
\* most one adapter call is in flight at any time, and while it is, every
\* adapter called before it has returned.
C8_OneCallAtATime ==
    /\ Cardinality(in_flight) <= 1
    /\ \A x \in in_flight : CalledSet \ {x} \subseteq DOMAIN returned

\* DuckDuckGo is in flight while Bing, enabled too, has not been called
C8_Witness ==
    /\ in_flight = {"duckduckgo"}
    /\ Applicable("bing")
    /\ "bing" \notin CalledSet

SourceLabel(x) ==
    CASE x = "duckduckgo" -> "DuckDuckGo" [] x = "bing" -> "Bing"
      [] x = "whois_domain" -> "WHOIS" [] x = "haveibeenpwned" -> "Have I Been Pwned"

\* some category of the delivered result holds an item of source x
Delivered(x) ==
    \E c \in DOMAIN response.results \ {"summary"} :
        \E i \in 1..Len(response.results[c]) :
            response.results[c][i].source = SourceLabel(x)

\* the adapters whose payload is not empty
HasPayload(x) ==
    /\ x \in DOMAIN returned
    /\ ~Failed(x)
    /\ CASE x = "whois_domain" -> "domain_name" \in DOMAIN returned[x]
         [] OTHER -> returned[x] # <<>>

\* C9: every non-empty successful payload of WHOIS (a record with a
\* domain_name), of a search engine and of the breach lookup yields an item of
\* the categorized result returned to the caller, and the summary reports it.
C9_PayloadsReachTheResult ==
    response.kind = "results" =>
        \A x \in {"whois_domain", "duckduckgo", "bing", "haveibeenpwned"} :
            HasPayload(x) =>
                /\ Delivered(x)
                /\ response.results["summary"][1][2] > 0

\* DuckDuckGo found a page and the delivered result holds nothing of it
C9_PayloadLost ==
    /\ response.kind = "results"
    /\ HasPayload("duckduckgo")
    /\ ~Delivered("duckduckgo")
    /\ response.results["summary"][1][2] = 0

\* the category names of the specification
FixedCategories ==
    {"emails", "phone_numbers", "social_links", "addresses", "business_info",
     "leaks", "domains", "ips", "raw_results"}

\* C10: the keys of the categorized result, as parse_and_categorize returns it
\* and as the renderer, the webhook formatter and the database logger get it,
\* are among the fixed category names.
C10_ClosedCategorySet ==
    /\ DOMAIN parse_and_categorize(AllResults) \subseteq FixedCategories
    /\ DOMAIN categorized_results \subseteq FixedCategories
    /\ response.kind = "results" => DOMAIN response.results \subseteq FixedCategories
    /\ \A i \in 1..Len(background_tasks) :
          background_tasks[i].task = "log_query" =>
              DOMAIN background_tasks[i].results \subseteq FixedCategories

\* the delivered result is keyed by the parser's own category names
C10_OtherKeysDelivered ==
    /\ response.kind = "results"
    /\ {"contact_info", "summary"} \subseteq DOMAIN response.results
    /\ DOMAIN response.results \cap FixedCategories = {}

\* the breach lookup answered 404 / failed in one of the other ways
HibpAnswered404 ==
    /\ "haveibeenpwned" \in DOMAIN returned
    /\ responses["haveibeenpwned"].kind = "http_error"
    /\ responses["haveibeenpwned"].status = 404

HibpFailed ==
    /\ "haveibeenpwned" \in DOMAIN returned
    /\ \/ responses["haveibeenpwned"].kind \in {"not_configured", "error"}
       \/ /\ responses["haveibeenpwned"].kind = "http_error"
          /\ responses["haveibeenpwned"].status # 404

\* C14: on HTTP 404 fetch_haveibeenpwned returns the empty list and no error
\* entry; on a missing key, another HTTP status or a transport exception it
\* returns a list holding one error record, so that the two are told apart.
C14_NotFoundIsEmptyNotError ==
    /\ HibpAnswered404 => returned["haveibeenpwned"] = <<>>
    /\ HibpFailed =>
          /\ Len(returned["haveibeenpwned"]) = 1
          /\ "error" \in DOMAIN returned["haveibeenpwned"][1]

\* the breach lookup of an e-mail query answered 404
C14_Witness ==
    /\ HibpAnswered404
    /\ parsed_query.type = "email"
    /\ returned["haveibeenpwned"] = <<>>
    /\ "haveibeenpwned" \in api_keys

\* the adapters called without their API key
Unconfigured == {x \in CalledSet \cap KeyedAdapters : x \notin api_keys}

\* the error an adapter returns when its key is not set
NotConfiguredError(x) ==
    CASE x = "ipinfo" -> [error |-> "IPinfo API key not set"]
      [] x = "hunter" -> [error |-> "Hunter.io API key not set"]
      [] x = "haveibeenpwned" -> <<[error |-> "HaveIBeenPwned API key not set"]>>

CategorizedOrAnswered ==
    /\ pc # "failed_dependency"
    /\ \/ DOMAIN categorized_results # {}
       \/ response.kind # "none"
       \/ pc = "done"

\* C18: the handler categorizes and answers only when every adapter call of
\* the request has been made and has returned a result or an error: none is
\* pending and none is left out.
C18_CategorizesAfterAllAdaptersSettled ==
    (CategorizedOrAnswered /\ ~InvalidRequest) =>
        /\ in_flight = {}
        /\ CalledSet = {x \in Adapters : Applicable(x)}
        /\ CalledSet \subseteq DOMAIN returned
        /\ CalledSet \subseteq DOMAIN responses

\* an e-mail query answered after its three adapters returned
C18_Witness ==
    /\ pc = "done"
    /\ response.kind = "results"
    /\ CalledSet = {"duckduckgo", "hunter", "haveibeenpwned"}
    /\ DOMAIN returned = CalledSet
    /\ DOMAIN categorized_results # {}

\* C19: when the request of a domain query whose search returned n >= 1
\* results ends, web_content_results holds the extracted content of the first
\* min(3, n) result urls and the caller gets the result; for every other
\* query no content is fetched and web_content_results is empty.
C19_SecondaryFetchOfTopUrls ==
    (pc = "done" /\ ~InvalidRequest) =>
        IF parsed_query.type = "domain" /\ Truthy(Get(search_results, "duckduckgo", <<>>))
        THEN /\ response.kind = "results"
             /\ DOMAIN web_content_results
                    = {TopResultUrls[i] : i \in 1..Len(TopResultUrls)}
        ELSE /\ web_content_results = EmptyDict
             /\ response.kind = "results"

\* a domain query whose search found pages ended in the AttributeError of the
\* fetch, with no content fetched
C19_FetchRaised ==
    /\ pc = "done"
    /\ ~InvalidRequest
    /\ parsed_query.type = "domain"
    /\ Len(TopResultUrls) >= 1
    /\ response.kind = "exception"
    /\ response.error = "AttributeError"
    /\ web_content_results = EmptyDict

\* a transport or parse failure happened inside the call of x: the request of
\* a search engine or an API failed, both tiers of the domain lookup failed,
\* the whois command of the IP lookup failed
FailedInside(x) ==
    /\ x \in DOMAIN responses
    /\ CASE x \in {"duckduckgo", "bing", "ipinfo", "hunter"} -> responses[x].kind = "error"
         [] x = "haveibeenpwned" ->
               \/ responses[x].kind = "error"
               \/ responses[x].kind = "http_error" /\ responses[x].status # 404
         [] x = "whois_domain" ->
               responses[x].primary = "error" /\ responses[x].fallback = "error"
         [] x = "whois_ip" -> responses[x].fallback = "error"

\* what x returned is an error-status result that carries a reason
ErrorStatus(x) ==
    /\ x \in DOMAIN returned
    /\ CASE x \in {"duckduckgo", "bing", "haveibeenpwned"} ->
               /\ returned[x] # <<>>
               /\ "error" \in DOMAIN returned[x][1]
               /\ returned[x][1]["error"] # ""
         [] OTHER -> "error" \in DOMAIN returned[x] /\ returned[x]["error"] # ""

\* every call that was answered has returned a value to its caller
EveryCallReturned ==
    /\ DOMAIN returned = DOMAIN responses
    /\ CalledSet = DOMAIN returned \cup in_flight

WhoisAdapters == {"whois_domain", "whois_ip"}

TiersOf(x) == LookupTiers(KeyOf(x), responses[x])

Attempted(x, tier) == \E i \in 1..Len(TiersOf(x)) : TiersOf(x)[i] = tier

\* the structured lookup of x was attempted and succeeded / failed
StructuredOk(x) ==
    Attempted(x, "whois.whois") /\ x = "whois_domain" /\ responses[x].primary = "ok"

RawFailed(x) == Attempted(x, "whois command") /\ responses[x].fallback = "error"

\* C22 as stated: for domain and for IP queries the structured lookup is
\* attempted first, the raw-text lookup if and only if the structured one
\* failed, the record of a successful structured lookup is what is returned,
\* and when both fail the error record 'WHOIS lookup failed' is returned.
C22_TwoTiersForDomainAndIp ==
    \A x \in WhoisAdapters \cap DOMAIN returned :
        /\ Head(TiersOf(x)) = "whois.whois"
        /\ Attempted(x, "whois command") <=> ~StructuredOk(x)
        /\ StructuredOk(x) => returned[x] = responses[x].record
        /\ (~StructuredOk(x) /\ RawFailed(x)) =>
               /\ "error" \in DOMAIN returned[x]
               /\ returned[x]["error"] = "WHOIS lookup failed"

\* C22 amended: the domain lookup is two-tier as stated; the IP lookup has no
\* structured tier: it asks for the host name, always runs the raw-text
\* lookup, returns the parsed raw record (with the host name), and when the
\* raw-text lookup fails it returns the host name record if it has one and
\* the error record 'WHOIS lookup failed' otherwise.
C22_TwoTiersForDomainOnly ==
    /\ "whois_domain" \in DOMAIN returned =>
          LET x == "whois_domain"
          IN  /\ Head(TiersOf(x)) = "whois.whois"
              /\ Attempted(x, "whois command") <=> ~StructuredOk(x)
              /\ StructuredOk(x) => returned[x] = responses[x].record
              /\ (~StructuredOk(x) /\ ~RawFailed(x)) =>
                     returned[x] = _parse_raw_whois(responses[x].lines)
              /\ (~StructuredOk(x) /\ RawFailed(x)) =>
                     returned[x] = [error |-> "WHOIS lookup failed",
                                    domain |-> parsed_query.data["domain"]]
    /\ "whois_ip" \in DOMAIN returned =>
          LET x == "whois_ip"
              host == responses[x].hostname
          IN  /\ ~Attempted(x, "whois.whois")
              /\ Attempted(x, "whois command")
              /\ ~RawFailed(x) =>
                     /\ returned[x].raw_text = responses[x].lines
                     /\ host # "" => returned[x].hostname = host
              /\ RawFailed(x) =>
                     returned[x] = IF host # "" THEN [hostname |-> host]
                                   ELSE [error |-> "WHOIS lookup failed",
                                         ip |-> parsed_query.data["ip"]]

\* a domain lookup whose structured tier failed and whose raw-text tier
\* answered
C22_Witness ==
    /\ "whois_domain" \in DOMAIN returned
    /\ ~StructuredOk("whois_domain")
    /\ ~RawFailed("whois_domain")
    /\ "domain_name" \in DOMAIN returned["whois_domain"]

\* an IP lookup whose whois command failed while the host name is known
C22_IpWitness ==
    /\ "whois_ip" \in DOMAIN returned
    /\ RawFailed("whois_ip")
    /\ returned["whois_ip"] = [hostname |-> "one.one"]

\* the lookups whose record was parsed from the raw output of the whois command
ParsedRaw(x) ==
    /\ x \in WhoisAdapters \cap DOMAIN returned
    /\ ~StructuredOk(x)
    /\ ~RawFailed(x)

MappedKeys == {FieldMapping[k] : k \in DOMAIN FieldMapping}

\* the values of the lines whose key maps to mapped_key, in line order
ValuesOf(lines, mapped_key) ==
    LET OfKey(line) ==
            /\ Lower(line[1]) \in DOMAIN FieldMapping
            /\ FieldMapping[Lower(line[1])] = mapped_key
        matching == SelectSeq(lines, OfKey)
    IN  [i \in 1..Len(matching) |-> matching[i][2]]

Repeated(x, mapped_key) ==
    ParsedRaw(x) /\ Len(ValuesOf(responses[x].lines, mapped_key)) >= 2

\* C23 as stated: a mapped field key that occurs on two or more lines of the
\* raw output is extracted as the ordered list of all its values.
C23_RepeatedKeysAccumulate ==
    \A x \in WhoisAdapters : \A mapped_key \in MappedKeys :
        Repeated(x, mapped_key) =>
            /\ Accumulates(mapped_key)
            /\ returned[x][mapped_key] = ValuesOf(responses[x].lines, mapped_key)

\* C23 amended: only the name servers are extracted as the ordered list of
\* all their values; every other repeated field holds the value of its last
\* line alone.
C23_OnlyNameServersAccumulate ==
    \A x \in WhoisAdapters : \A mapped_key \in MappedKeys :
        Repeated(x, mapped_key) =>
            LET values == ValuesOf(responses[x].lines, mapped_key)
            IN  IF mapped_key = "name_servers"
                THEN returned[x][mapped_key] = values
                ELSE returned[x][mapped_key] = values[Len(values)]

\* a raw output with two name servers, and one with two country lines
C23_Witness ==
    /\ Repeated("whois_ip", "country")
    /\ returned["whois_ip"]["country"] = "US"

C23_NameServersWitness ==
    /\ Repeated("whois_domain", "name_servers")
    /\ returned["whois_domain"]["name_servers"] = <<"ns1", "ns2">>

\* the source an adapter call belongs to
SourceOf(x) == IF x \in WhoisAdapters THEN "whois" ELSE x

\* how often the adapter of source s was invoked in this request
Invocations(s) == Cardinality({i \in 1..Len(called) : SourceOf(called[i].adapter) = s})

\* the fields one of which the adapter of source s needs
RequiredFields(s) ==
    CASE s = "ipinfo" -> {"ip"}
      [] s = "hunter" -> {"domain", "email"}
      [] s = "haveibeenpwned" -> {"email", "username"}
      [] s = "whois" -> {"domain", "ip"}

ToBeInvoked(s) ==
    /\ parsed_query.sources[s]
    /\ s \notin {"duckduckgo", "bing"} =>
           RequiredFields(s) \cap DOMAIN parsed_query.data # {}

Dispatched == ~InvalidRequest /\ pc \in {"web_content", "done"}

\* C24: in routes.search every adapter whose source is enabled for the type
\* of a valid query and whose field is among the extracted fields is invoked
\* exactly once, every other adapter is not invoked at all, and no adapter is
\* called twice within one request.
C24_EachAdapterInvokedOnceIfEnabled ==
    /\ \A s \in SourceNames : Invocations(s) <= 1
    /\ Dispatched =>
          \A s \in SourceNames : Invocations(s) = IF ToBeInvoked(s) THEN 1 ELSE 0

\* an e-mail request after dispatch: Hunter was invoked once, the registry
\* lookup, not enabled for e-mails, was not although a domain was extracted
C24_Witness ==
    /\ Dispatched
    /\ parsed_query.type = "email"
    /\ "domain" \in DOMAIN parsed_query.data
    /\ Invocations("hunter") = 1
    /\ Invocations("whois") = 0

\* the calls of the Hunter adapter in this request
HunterCalls == {i \in 1..Len(called) : called[i].adapter = "hunter"}

\* C28 as stated: for a query classified email, fetch_all calls the Hunter
\* adapter with the full e-mail address (the email-verification lookup); the
\* domain-search lookup is used only when the fields hold a domain and no
\* e-mail.
C28_HunterGetsTheFullEmail ==
    \A i \in HunterCalls :
        /\ parsed_query.type = "email" =>
               /\ called[i].arg = parsed_query.data["email"]
               /\ HunterEndpoint(called[i].arg) = "email-verifier"
        /\ HunterEndpoint(called[i].arg) = "domain-search" =>
               /\ "domain" \in DOMAIN parsed_query.data
               /\ "email" \notin DOMAIN parsed_query.data

\* for an e-mail query Hunter was called with the domain of the address: the
\* domain-search lookup
C28_HunterGotTheDomain ==
    /\ parsed_query.valid
    /\ parsed_query.type = "email"
    /\ \E i \in HunterCalls :
          /\ called[i].arg = parsed_query.data["domain"]
          /\ called[i].arg # parsed_query.data["email"]
          /\ HunterEndpoint(called[i].arg) = "domain-search"

\* the log_query tasks scheduled by the handler
LoggingTasks == {i \in 1..Len(background_tasks) : background_tasks[i].task = "log_query"}

\* C30 as stated: without a database get_db supplies exactly one value, None,
\* the handler runs, schedules no database logging and completes the search;
\* with a database get_db supplies one session, closed only after the
\* request.
C30_NoDatabaseSuppliesNone ==
    /\ (SessionLocal = "None" /\ pc # "depends") =>
          /\ db_supplied = <<"">>
          /\ pc # "failed_dependency"
          /\ LoggingTasks = {}
    /\ (SessionLocal # "None" /\ pc # "depends") =>
          /\ db_supplied = <<"session">>
          /\ db = "session"
          /\ session_state \in {"open", "closed"}
          /\ session_state = "closed" => pc = "done"

\* without a database the dependency has supplied no value and the request
\* has failed before the handler was entered
C30_DependencyFailed ==
    /\ SessionLocal = "None"
    /\ db_supplied = <<>>
    /\ pc = "failed_dependency"
    /\ response = [kind |-> "exception", error |-> "RuntimeError"]
    /\ called = <<>>

\* with a database the session is supplied once, the handler runs, and the
\* session is closed only after the handler has ended, which it can be on
\* every path
C30_SessionClosedAfterTheRequest ==
    (SessionLocal # "None" /\ pc # "depends") =>
        /\ db_supplied = <<"session">>
        /\ db = "session"
        /\ session_state = "closed" => pc = "done"
        /\ (pc = "done" /\ session_state = "open") => ENABLED CloseSession

C30_SessionClosed ==
    /\ session_state = "closed"
    /\ response.kind = "results"
    /\ LoggingTasks # {}

(***************************************************************************)
(* Properties of the result parser, the summary and the webhook payload,   *)
(* checked under SpecParse.                                                *)
(***************************************************************************)
Categorized == r_step \in {"categorized", "summarized", "formatted"}

\* the results a search engine delivered to the parser
Arrivals(engine) == Get(Branch(r_results, "search_engines"), engine, <<>>)

\* the search results of both engines that land in a category
Landing(terms) ==
    {x \in ParseItems :
        /\ Mentions(x, terms)
        /\ \E e \in {"duckduckgo", "bing"} :
              \E i \in 1..Len(Arrivals(e)) : Arrivals(e)[i] = x}

\* the terms that send a search result to a category
TermsOf(category) ==
    IF category = "contact_info" THEN {"contact"} ELSE ProfileTerms

\* the text items of a category
TextItems(category) ==
    {i \in 1..Len(r_categorized[category]) :
        r_categorized[category][i].content_type = "text"}

\* the url a text item links to: the end of its content
LinkOf(item) == item.content.text[Len(item.content.text)]

NothingFound == \A c \in ParserCategories : r_categorized[c] = <<>>

Summarized == r_step \in {"summarized", "formatted"}

\* C12 as stated: when every category of the categorized result is empty, the
\* summary is exactly one line, which says that nothing significant was found.
C12_OneLineWhenNothingFound ==
    (Summarized /\ NothingFound) =>
        /\ Len(r_summary) = 1
        /\ r_summary[1][1] = "No significant information found"

\* C12 amended: when every category of the categorized result is empty, the
\* summary is exactly two lines: that no significant information was found,
\* and the advice to try a different query or to enable more sources.
C12_TwoLinesWhenNothingFound ==
    (Summarized /\ NothingFound) =>
        r_summary = << <<"No significant information found", 0>>,
                       <<"Consider trying a different query", 0>> >>

\* an input none of whose payloads yields an item has been summarized
C12_Witness ==
    /\ Summarized
    /\ NothingFound
    /\ Len(r_summary) = 2

\* the number of items of a category
Size(c) == Len(r_categorized[c])

Min(a, b) == IF a < b THEN a ELSE b

\* the lines the stated summary gives a category of n items: a header, the
\* first min(5, n) entries, and "...and N more" when n > 5
StatedLines(n) ==
    IF n = 0 THEN 0 ELSE 1 + Min(5, n) + (IF n > 5 THEN 1 ELSE 0)

\* C13 as stated: the summary holds, for each non-empty category, a header,
\* the first min(5, n) entries and, exactly when n > 5, a line "...and N
\* more"; empty categories contribute nothing.
C13_HeaderAndEntriesPerCategory ==
    (Summarized /\ ~NothingFound) =>
        Len(r_summary) =
            StatedLines(Size("contact_info")) + StatedLines(Size("social_profiles"))
                + StatedLines(Size("domain_info")) + StatedLines(Size("breach_data"))
                + StatedLines(Size("location_data")) + StatedLines(Size("related_links"))
                + StatedLines(Size("raw_data"))

\* the position of a category in the order of the summary
OrderIndex(c) == CHOOSE k \in 1..Len(SummaryOrder) : SummaryOrder[k] = c

\* the number of links in the list items of related_links
RECURSIVE LinksUpTo(_)
LinksUpTo(i) ==
    IF i = 0 THEN 0
    ELSE LinksUpTo(i - 1)
             + (IF r_categorized["related_links"][i].content_type = "list"
                THEN Len(r_categorized["related_links"][i].content.list) ELSE 0)

\* C13 amended: the summary holds exactly one line for each non-empty
\* category among contact_info, social_profiles, domain_info, breach_data,
\* location_data and related_links, in that order; the line reports the number
\* of items of the category (for related_links, the number of links), lists
\* no entry and is followed by no "...and N more" line, however many items
\* the category holds; raw_data contributes nothing.
C13_OneCountLinePerCategory ==
    (Summarized /\ \E k \in 1..Len(SummaryOrder) : Size(SummaryOrder[k]) > 0) =>
        /\ {r_summary[i][1] : i \in 1..Len(r_summary)}
               = {SummaryOrder[k] : k \in {j \in 1..Len(SummaryOrder) :
                                               Size(SummaryOrder[j]) > 0}}
        /\ \A i, j \in 1..Len(r_summary) :
               i < j => OrderIndex(r_summary[i][1]) < OrderIndex(r_summary[j][1])
        /\ \A i \in 1..Len(r_summary) :
               r_summary[i][2] =
                   IF r_summary[i][1] = "related_links"
                   THEN LinksUpTo(Size("related_links"))
                   ELSE Size(r_summary[i][1])

\* a category of more than five items, and one item of two links under
\* related_links
C13_Witness ==
    /\ Summarized
    /\ Size("contact_info") > 5
    /\ Size("related_links") = 1
    /\ LinksUpTo(1) = 2
    /\ r_summary[1] = <<"contact_info", Size("contact_info")>>

\* the categories of the categorized result that hold an item
NonEmptyCategories ==
    {c \in DOMAIN r_categorized \ {"summary"} : r_categorized[c] # <<>>}

\* C16: the "categories" of the webhook payload are exactly the categories of
\* the categorized result that are present and non-empty, each with its items.
C16_PayloadCarriesNonEmptyCategories ==
    r_step = "formatted" =>
        /\ DOMAIN r_payload.categories = NonEmptyCategories
        /\ \A c \in NonEmptyCategories \cap DOMAIN r_payload.categories :
              r_payload.categories[c] = r_categorized[c]

\* the categorized result holds contact items and the payload no category
C16_CategoriesDropped ==
    /\ r_step = "formatted"
    /\ "contact_info" \in NonEmptyCategories
    /\ DOMAIN r_payload.categories = {}

\* the labels parse_and_categorize gives the adapters
SourceLabels ==
    {"WHOIS", "DuckDuckGo", "Bing", "IPinfo.io", "Hunter.io", "Have I Been Pwned"}

\* the payload of the adapter a label names is part of the parser's input
PayloadPresent(label) ==
    LET api == Branch(r_results, "api_sources")
    IN  CASE label = "WHOIS" -> Truthy(Branch(r_results, "whois"))
          [] label = "DuckDuckGo" -> Arrivals("duckduckgo") # <<>>
          [] label = "Bing" -> Arrivals("bing") # <<>>
          [] label = "IPinfo.io" -> "ipinfo" \in DOMAIN api
          [] label = "Hunter.io" -> "hunter" \in DOMAIN api
          [] label = "Have I Been Pwned" -> "haveibeenpwned" \in DOMAIN api
          [] OTHER -> FALSE

\* a text item was built from a result its engine delivered
BuiltFromArrival(item) ==
    LET engine == IF item.source = "DuckDuckGo" THEN "duckduckgo" ELSE "bing"
    IN  \E k \in 1..Len(Arrivals(engine)) :
            /\ Arrivals(engine)[k].title = item.title
            /\ LinkedSnippet(Arrivals(engine)[k]) = item.content.text

\* C17: every item of every category carries a source label that names the
\* adapter whose payload it was built from, and an item that deduplication
\* keeps is one of the items collected, with its source unchanged.
C17_ItemsKeepTheirSource ==
    Categorized =>
        \A c \in ParserCategories : \A i \in 1..Len(r_categorized[c]) :
            LET item == r_categorized[c][i]
            IN  /\ item.source \in SourceLabels
                /\ PayloadPresent(item.source)
                /\ item.content_type = "text" => BuiltFromArrival(item)
                /\ \E j \in 1..Len(r_collected[c]) :
                      r_collected[c][j] = item

\* both engines delivered the same result; the item kept is DuckDuckGo's
C17_Witness ==
    /\ Categorized
    /\ Arrivals("duckduckgo") # <<>>
    /\ Arrivals("duckduckgo") = Arrivals("bing")
    /\ Len(r_collected["contact_info"]) = 2
    /\ Len(r_categorized["contact_info"]) = 1
    /\ r_categorized["contact_info"][1].source = "DuckDuckGo"

\* the place of an adapter in the order in which routes.search receives the
\* adapters' results: search engines, API sources, WHOIS
ArrivalRank(label) ==
    CASE label \in {"DuckDuckGo", "Bing"} -> 1
      [] label \in {"IPinfo.io", "Hunter.io", "Have I Been Pwned"} -> 2
      [] label = "WHOIS" -> 3

\* the place of an adapter in the order of the branches of the parser
BranchRank(label) ==
    CASE label = "WHOIS" -> 1
      [] label = "DuckDuckGo" -> 2
      [] label = "Bing" -> 3
      [] label = "IPinfo.io" -> 4
      [] label = "Hunter.io" -> 5
      [] label = "Have I Been Pwned" -> 6

\* the positions of the collected items that repeat no earlier signature
Firsts(c) ==
    LET col == r_collected[c]
    IN  {j \in 1..Len(col) : \A k \in 1..(j - 1) : Signature(col[k]) # Signature(col[j])}

\* the category holds the first occurrence of every signature, the kept items
\* in the order in which they were collected
FirstOccurrencesKept(c) ==
    LET col == r_collected[c]
        nth(i) == CHOOSE j \in Firsts(c) : Cardinality({k \in Firsts(c) : k < j}) = i - 1
    IN  /\ Len(r_categorized[c]) = Cardinality(Firsts(c))
        /\ \A i \in 1..Len(r_categorized[c]) : r_categorized[c][i] = col[nth(i)]

\* the first result of its engine a text item can have been built from
FirstArrival(item) ==
    LET engine == IF item.source = "DuckDuckGo" THEN "duckduckgo" ELSE "bing"
        from   == {k \in 1..Len(Arrivals(engine)) :
                      /\ Arrivals(engine)[k].title = item.title
                      /\ LinkedSnippet(Arrivals(engine)[k]) = item.content.text}
    IN  CHOOSE k \in from : \A l \in from : k <= l

\* C20 as stated: inside each category the items are in the order in which
\* their adapters delivered results to the orchestrator (search engines, then
\* API sources, then WHOIS), and deduplication keeps the first occurrence and
\* the relative order of the kept items.
C20_ItemsInArrivalOrder ==
    Categorized =>
        \A c \in ParserCategories :
            /\ \A i, j \in 1..Len(r_categorized[c]) :
                  i < j => ArrivalRank(r_categorized[c][i].source)
                               <= ArrivalRank(r_categorized[c][j].source)
            /\ FirstOccurrencesKept(c)

\* C20 amended: inside each category the items are in the order of the
\* parser's branches (WHOIS, DuckDuckGo, Bing, IPinfo, Hunter.io,
\* HaveIBeenPwned), whatever the order in which the adapters answered, and the
\* items of one search engine in the order of its results; deduplication
\* keeps the first occurrence in that order and the relative order of the
\* kept items.
C20_ItemsInBranchOrder ==
    Categorized =>
        \A c \in ParserCategories :
            /\ \A i, j \in 1..Len(r_categorized[c]) :
                  LET a == r_categorized[c][i]
                      b == r_categorized[c][j]
                  IN  i < j =>
                        /\ BranchRank(a.source) <= BranchRank(b.source)
                        /\ (a.source = b.source /\ a.content_type = "text"
                                /\ b.content_type = "text")
                              => FirstArrival(a) < FirstArrival(b)
            /\ FirstOccurrencesKept(c)

\* the contact items of a WHOIS record, of two engines and of Hunter.io, in
\* the order of the branches, one repeated result of Bing collapsed
C20_Witness ==
    /\ Categorized
    /\ Len(r_categorized["contact_info"]) >= 4
    /\ r_categorized["contact_info"][1].source = "WHOIS"
    /\ r_categorized["contact_info"][2].source = "DuckDuckGo"
    /\ r_categorized["contact_info"][Len(r_categorized["contact_info"])].source = "Hunter.io"
    /\ \E c \in ParserCategories :
          Len(r_categorized[c]) < Len(r_collected[c])

\* the filter flags the title or the snippet of a search result
Flagged(result) == is_ad_or_irrelevant(result.title) \/ is_ad_or_irrelevant(result.snippet)

\* an item of a category is derived from a search result: the text item
\* built from it, or a list of links with its link
DerivedFrom(item, result) ==
    /\ item.source \in {"DuckDuckGo", "Bing"}
    /\ \/ /\ item.content_type = "text"
          /\ item.title = result.title
          /\ item.content.text = LinkedSnippet(result)
       \/ /\ item.content_type = "list"
          /\ \E k \in 1..Len(item.content.list) :
                item.content.list[k] = result.title \o <<" - ", result.url>>

\* the categories that hold an item derived from a search result
CategoriesDerivedFrom(result) ==
    {c \in ParserCategories :
        \E i \in 1..Len(r_categorized[c]) : DerivedFrom(r_categorized[c][i], result)}

FlaggedArrivals ==
    {x \in ParseItems :
        /\ Flagged(x)
        /\ \E e \in {"duckduckgo", "bing"} :
              \E i \in 1..Len(Arrivals(e)) : Arrivals(e)[i] = x}

\* C26 as stated: no item of any category of the categorized result is
\* derived from a search result whose title or snippet the advertisement
\* filter flags.
C26_FlaggedResultsAreExcluded ==
    Categorized => \A x \in FlaggedArrivals : CategoriesDerivedFrom(x) = {}

\* a result titled "Advertisement" has become a contact item and a related link
C26_AdCategorized ==
    /\ Categorized
    /\ \E x \in FlaggedArrivals :
          {"contact_info", "related_links"} \subseteq CategoriesDerivedFrom(x)

\* the first 100 characters of the content of an item
ContentPrefix(item) ==
    IF "text" \in DOMAIN item.content
    THEN [prefix |-> Take(item.content.text, SignatureLen)]
    ELSE IF "list" \in DOMAIN item.content
    THEN [prefix |-> Take(ListRepr(item.content.list), SignatureLen)]
    ELSE [formatted |-> item.content]

\* the collected item at position j of category c is among the items kept
KeptItem(c, j) ==
    \E i \in 1..Len(r_categorized[c]) : r_categorized[c][i] = r_collected[c][j]

\* the positions whose content prefix no earlier collected item has
NewPrefixes(c) ==
    {j \in 1..Len(r_collected[c]) :
        \A k \in 1..(j - 1) :
            ContentPrefix(r_collected[c][k]) # ContentPrefix(r_collected[c][j])}

FastapiAnswered == entry \in FastapiEntries /\ pc = "done" /\ parsed_query.valid

\* the adapters routes.search dispatches for the query: those of the sources
\* enabled for its type whose field was extracted
RoutesDispatch == {x \in Adapters : Applicable(x)}

\* C27 as stated: for every valid query fastapi_server.search invokes the
\* same set of adapters as routes.search, and hands parse_and_categorize the
\* adapter results under the keys it reads.
C27_SameDispatchAsRoutes ==
    FastapiAnswered =>
        /\ CalledSet = RoutesDispatch
        /\ categorized_results =
               parse_and_categorize([whois |-> whois_results,
                                     search_engines |-> search_results,
                                     api_sources |-> api_results])

\* a name query was answered without calling either search engine, and an
\* e-mail query without calling Hunter
C27_SearchEnginesNotCalled ==
    /\ FastapiAnswered
    /\ parsed_query.type = "name"
    /\ {"duckduckgo", "bing"} \subseteq RoutesDispatch
    /\ called = <<>>

C27_HunterNotCalled ==
    /\ FastapiAnswered
    /\ parsed_query.type = "email"
    /\ "hunter" \in RoutesDispatch
    /\ called = <<>>

\* only the registry lookup is ever called
C27_OnlyWhoisCalled == CalledSet \subseteq WhoisAdapters

C27_WhoisCalled ==
    /\ FastapiAnswered
    /\ CalledSet = {"whois_domain"}
    /\ "domain" \in DOMAIN whois_results

====
